---- MODULE Spec2Model ----
(***************************************************************************)
(* The REST layer of the portfolio application: the project router         *)
(* (server/routes/projects.js) and the skill router                        *)
(* (server/routes/skills.js), each request run through its middleware      *)
(* chain and its handler against the document store.                       *)
(*                                                                         *)
(* Strings the code inspects character by character (skill names,          *)
(* categories, route identifiers) are sequences of one-character strings.  *)
(* The Mongoose schemas, the auth middleware and the validators of         *)
(* middleware/validation are not part of the sources at hand; they are     *)
(* modelled from the written specification and marked so where defined.    *)
(***************************************************************************)
EXTENDS Integers, Sequences, FiniteSets, TLC

VARIABLES
    projects,   \* the Project collection, in insertion order
    skills,     \* the Skill collection, in insertion order
    nextId,     \* source of fresh ObjectIds and creation timestamps
    resp,       \* the response to the request handled last
    pending,    \* POST requests suspended between their awaits
    contacts,   \* the Contact collection, in insertion order
    adminContact, \* the state of the AdminContact page in the browser
    storage,    \* the browser's localStorage entry 'token': <<>> or <<token>>
    sent,       \* the fetch configuration of the request the client sent last
    provider,   \* the state of AuthProvider and its calls in flight
    skillsPage, \* the state of the AdminSkills page
    projectForm, \* the state of the admin ProjectForm page
    detail,     \* the state of the ProjectDetail page
    tester      \* the results object of the MERNProjectTester script

\* The variables outside the project and the skill router.
browser == <<contacts, adminContact, storage, sent>>

\* The pages and the script beside AuthProvider.
views == <<skillsPage, projectForm, detail, tester>>

\* The state of the React components other than the AdminContact page, and
\* of the checker script.
pages == <<provider, skillsPage, projectForm, detail, tester>>

vars == <<projects, skills, nextId, resp, pending, contacts, adminContact, storage, sent,
          provider, skillsPage, projectForm, detail, tester>>

----------------------------------------------------------------------------
(* Bounds of the model *)

MaxSkillIds == 2
MaxProjectIds == 2
MaxFeaturedIds == 8
MaxInflight == 2
MaxBatch == 2

----------------------------------------------------------------------------
(* Characters and strings *)

UpperChars ==
    <<"A", "B", "C", "D", "E", "F", "G", "H", "I", "J", "K", "L", "M",
      "N", "O", "P", "Q", "R", "S", "T", "U", "V", "W", "X", "Y", "Z">>
LowerChars ==
    <<"a", "b", "c", "d", "e", "f", "g", "h", "i", "j", "k", "l", "m",
      "n", "o", "p", "q", "r", "s", "t", "u", "v", "w", "x", "y", "z">>
Digits == <<"0", "1", "2", "3", "4", "5", "6", "7", "8", "9">>

\* The characters of the model in ASCII order (binary string comparison).
AsciiOrder == <<" ", "+", "-", ".">> \o Digits \o UpperChars \o LowerChars

Chars == {AsciiOrder[i] : i \in 1..Len(AsciiOrder)}

CodeOf == [c \in Chars |-> CHOOSE i \in 1..Len(AsciiOrder) : AsciiOrder[i] = c]

Code(c) == CodeOf[c]

\* Case folding of the regular expression flag i and of the index collation.
LowerOf ==
    [c \in Chars |->
        IF \E i \in 1..Len(UpperChars) : UpperChars[i] = c
        THEN LowerChars[CHOOSE i \in 1..Len(UpperChars) : UpperChars[i] = c]
        ELSE c]

Lower(c) == LowerOf[c]

LowerStr(s) == [i \in 1..Len(s) |-> Lower(s[i])]

\* s < t in binary (code unit) order
RECURSIVE StrLess(_, _)
StrLess(s, t) ==
    IF t = <<>> THEN FALSE
    ELSE IF s = <<>> THEN TRUE
    ELSE IF Code(Head(s)) # Code(Head(t)) THEN Code(Head(s)) < Code(Head(t))
    ELSE StrLess(Tail(s), Tail(t))

\* String.prototype.trim / express-validator trim()
RECURSIVE TrimLeft(_)
TrimLeft(s) ==
    IF s # <<>> /\ Head(s) = " " THEN TrimLeft(Tail(s)) ELSE s

RECURSIVE TrimRight(_)
TrimRight(s) ==
    IF s # <<>> /\ s[Len(s)] = " " THEN TrimRight(SubSeq(s, 1, Len(s) - 1)) ELSE s

Trim(s) == TrimRight(TrimLeft(s))

----------------------------------------------------------------------------
(* new RegExp(`^${pat}$`, 'i'): the pattern text is spliced in unescaped,   *)
(* so "." and "+" keep their regular-expression meaning.                   *)

\* The RegExp constructor throws SyntaxError ("nothing to repeat") when a
\* quantifier has no atom before it.
RegexThrows(pat) ==
    \E i \in 1..Len(pat) : pat[i] = "+" /\ (i = 1 \/ pat[i - 1] = "+")

AtomIdx(pat) ==
    SelectSeq([i \in 1..Len(pat) |-> i], LAMBDA i : pat[i] # "+")

RECURSIVE MatchFrom(_, _, _, _, _)
MatchFrom(pat, idx, k, text, j) ==
    IF k > Len(idx) THEN j = Len(text) + 1
    ELSE LET i == idx[k]
             plus == i < Len(pat) /\ pat[i + 1] = "+"
             ok(c) == pat[i] = "." \/ Lower(pat[i]) = Lower(c)
         IN IF plus
            THEN \E n \in 1..(Len(text) - j + 1) :
                    /\ \A m \in j..(j + n - 1) : ok(text[m])
                    /\ MatchFrom(pat, idx, k + 1, text, j + n)
            ELSE /\ j <= Len(text)
                 /\ ok(text[j])
                 /\ MatchFrom(pat, idx, k + 1, text, j + 1)

\* { $regex: new RegExp(`^${pat}$`, 'i') } applied to a stored string
RegexTest(pat, text) == MatchFrom(pat, AtomIdx(pat), 1, text, 1)

----------------------------------------------------------------------------
(* Sorting as the store does it for .sort(): ascending by a comparison,     *)
(* elements that compare equal stay in insertion order.                    *)

SortBy(seq, less(_, _)) ==
    LET n == Len(seq)
        rank(i) ==
            1 + Cardinality({j \in 1..n :
                    \/ less(seq[j], seq[i])
                    \/ (~less(seq[i], seq[j]) /\ j < i)})
    IN [r \in 1..n |-> seq[CHOOSE i \in 1..n : rank(i) = r]]

Range(seq) == {seq[i] : i \in 1..Len(seq)}

Take(seq, n) == SubSeq(seq, 1, IF n < Len(seq) THEN n ELSE Len(seq))

----------------------------------------------------------------------------
(* Requests, middleware chains and responses *)

\* What the Authorization header carries: nothing, a token that does not
\* verify, or a valid token of a standard user or of an admin.
Tokens == {"none", "invalid", "user", "admin"}

\* middleware/auth: passes and attaches req.user iff the bearer token verifies.
AuthPasses(token) == token \in {"user", "admin"}

\* Runs the middleware registered before a handler, in order.  "auth" ends
\* the request with 401 when the token does not verify; "rules" (the
\* express-validator chains) only record violations; "validation" ends the
\* request with 400 when violations were recorded.
RECURSIVE RunChain(_, _, _, _)
RunChain(chain, token, errs, ran) ==
    IF chain = <<>> THEN [stopped |-> FALSE, status |-> 0, ran |-> ran]
    ELSE LET stage == Head(chain)
             now == Append(ran, stage)
         IN IF stage = "auth" /\ ~AuthPasses(token)
            THEN [stopped |-> TRUE, status |-> 401, ran |-> now]
            ELSE IF stage = "validation" /\ errs # {}
            THEN [stopped |-> TRUE, status |-> 400, ran |-> now]
            ELSE RunChain(Tail(chain), token, errs, now)

\* req.user exists only when the auth middleware ran (and passed).
HasUser(ran) == "auth" \in Range(ran)

\* A JSON response; message = "" stands for a body without a message field,
\* body is the list of documents sent, ran the stages that were executed.
NoPagination == [page |-> 0, limit |-> 0, total |-> 0, pages |-> 0]

Reply(route, token, ran, status, message, body) ==
    [route |-> route, token |-> token, ran |-> ran, status |-> status,
     message |-> message, errors |-> {}, body |-> body, pagination |-> NoPagination,
     details |-> <<>>]

\* A validation response that stops at the first violated rule.
ReplyFirstError(route, token, ran, errs) ==
    [route |-> route, token |-> token, ran |-> ran, status |-> 400,
     message |-> "", body |-> <<>>, pagination |-> NoPagination, details |-> <<>>,
     errors |-> IF errs = {} THEN {} ELSE {CHOOSE e \in errs : TRUE}]

\* res.status(400).json({ errors: errors.array() })
ReplyErrors(route, token, ran, errs) ==
    [route |-> route, token |-> token, ran |-> ran, status |-> 400,
     message |-> "", errors |-> errs, body |-> <<>>, pagination |-> NoPagination,
     details |-> <<>>]

\* The response of a chain that ended the request itself.
ReplyStopped(route, token, m, errs) ==
    IF m.status = 401
    THEN Reply(route, token, m.ran, 401, "unauthenticated", <<>>)
    ELSE ReplyErrors(route, token, m.ran, errs)

NoReply == Reply("", "none", <<>>, 0, "", <<>>)

\* An id parameter that is no ObjectId (the store's cast throws CastError).
BadId == 0

----------------------------------------------------------------------------
(* The Skill collection *)

CatFrontend == <<"f", "r", "o", "n", "t", "e", "n", "d">>
CatBackend == <<"b", "a", "c", "k", "e", "n", "d">>
CatDatabase == <<"d", "a", "t", "a", "b", "a", "s", "e">>
CatDevops == <<"d", "e", "v", "o", "p", "s">>
CatMobile == <<"m", "o", "b", "i", "l", "e">>
CatDesign == <<"d", "e", "s", "i", "g", "n">>
CatTools == <<"t", "o", "o", "l", "s">>
CatOther == <<"o", "t", "h", "e", "r">>

SkillCategories ==
    {CatFrontend, CatBackend, CatDatabase, CatDevops, CatMobile, CatDesign,
     CatTools, CatOther}

\* Schema defaults of the optional fields of a Skill.
DefaultIsVisible == TRUE
DefaultOrder == 0

\* new Skill(data): fields present in data are taken, the others default.
NewSkill(id, data) ==
    [id |-> id, name |-> data.name, category |-> data.category,
     isVisible |-> IF "isVisible" \in data.has THEN data.isVisible ELSE DefaultIsVisible,
     order |-> IF "order" \in data.has THEN data.order ELSE DefaultOrder]

\* A unique index that compares the key without a case-insensitive collation.
DupKeyBinary(store, doc) ==
    \E s \in Range(store) :
        s.id # doc.id /\ s.name = doc.name /\ s.category = doc.category

\* The unique index on (name, category), case-insensitive: TRUE when writing
\* doc would duplicate the key of another stored skill (error code 11000).
DupKey(store, doc) ==
    \E s \in Range(store) :
        /\ s.id # doc.id
        /\ LowerStr(s.name) = LowerStr(doc.name)
        /\ LowerStr(s.category) = LowerStr(doc.category)

FindSkill(store, id) == {s \in Range(store) : s.id = id}

\* The rules of POST /skills: name and category required, category of the enum.
SkillPostErrors(body) ==
    {f \in {"name"} : "name" \notin body.has \/ Trim(body.name) = <<>>}
    \cup {f \in {"category"} :
            \/ "category" \notin body.has
            \/ Trim(body.category) = <<>>
            \/ Trim(body.category) \notin SkillCategories}

\* The rules of PUT /skills/:id: the same, each only when the field is sent.
SkillPutErrors(body) ==
    {f \in {"name"} : "name" \in body.has /\ Trim(body.name) = <<>>}
    \cup {f \in {"category"} :
            /\ "category" \in body.has
            /\ (Trim(body.category) = <<>> \/ Trim(body.category) \notin SkillCategories)}

\* req.body after the sanitizers (trim) of the rules ran.
Sanitized(body) ==
    [body EXCEPT !.name = Trim(body.name), !.category = Trim(body.category)]

----------------------------------------------------------------------------
(* Skill router: the middleware chain of each route *)

SkillsListChain == <<>>
SkillsAdminAllChain == <<"auth">>
SkillsPostChain == <<"auth", "rules", "validation">>
SkillsPutChain == <<"auth", "rules", "validation">>
SkillsDeleteChain == <<"auth">>
SkillsBulkChain == <<"auth">>

\* What a handler leaves behind: its response, the collection, the id source.
SkillOutcome(r, store, nid) == [resp |-> r, skills |-> store, nextId |-> nid]

\* sort({ order: 1, [sort]: 1 })
SkillLessByOrderThen(field, a, b) ==
    \/ a.order < b.order
    \/ /\ a.order = b.order
       /\ IF field = "category" THEN StrLess(a.category, b.category)
          ELSE StrLess(a.name, b.name)

\* GET /skills with a query that starts empty instead of { isVisible: true }.
SkillsListUnfiltered(store, token, q) ==
    LET filtered == "category" \in q.has /\ q.category # <<>>
        match(s) == filtered => RegexTest(q.category, s.category)
        less(a, b) == SkillLessByOrderThen("name", a, b)
    IN IF filtered /\ RegexThrows(q.category)
       THEN Reply("GET /skills", token, <<>>, 500, "Server error while fetching skills", <<>>)
       ELSE Reply("GET /skills", token, <<>>, 200, "", SortBy(SelectSeq(store, match), less))

\* GET /skills: the visible skills, optionally of one category, sorted.
\* q.has holds the query parameters sent.
SkillsList(store, token, q) ==
    LET route == "GET /skills"
        m == RunChain(SkillsListChain, token, {}, <<>>)
        sort == IF "sort" \in q.has THEN q.sort ELSE "name"
        filtered == "category" \in q.has /\ q.category # <<>>
        match(s) ==
            /\ s.isVisible = TRUE
            /\ filtered => RegexTest(q.category, s.category)
        found == SelectSeq(store, match)
        less(a, b) == SkillLessByOrderThen(sort, a, b)
    IN IF filtered /\ RegexThrows(q.category)
       THEN Reply(route, token, m.ran, 500, "Server error while fetching skills", <<>>)
       ELSE Reply(route, token, m.ran, 200, "", SortBy(found, less))

\* sort({ category: 1, order: 1, name: 1 })
SkillAdminLess(a, b) ==
    \/ StrLess(a.category, b.category)
    \/ /\ a.category = b.category
       /\ \/ a.order < b.order
          \/ (a.order = b.order /\ StrLess(a.name, b.name))

\* GET /skills/admin/all
SkillsAdminAll(store, token) ==
    LET route == "GET /skills/admin/all"
        m == RunChain(SkillsAdminAllChain, token, {}, <<>>)
    IN IF m.stopped THEN ReplyStopped(route, token, m, {})
       ELSE IF ~HasUser(m.ran)
       THEN Reply(route, token, m.ran, 500, "Server error while fetching all skills", <<>>)
       ELSE IF token # "admin"
       THEN Reply(route, token, m.ran, 403, "Admin access required", <<>>)
       ELSE Reply(route, token, m.ran, 200, "", SortBy(store, SkillAdminLess))

\* The duplicate pre-check of POST and PUT: findOne with the name and the
\* category spliced into case-insensitive regular expressions.
ExistingSkill(store, exceptId, name, category) ==
    {s \in Range(store) :
        /\ s.id # exceptId
        /\ RegexTest(name, s.name)
        /\ RegexTest(category, s.category)}

\* POST /skills up to its first store write: either the final response
\* (done), or the skillData that is about to be saved.
SkillsPostPre(store, token, body) ==
    LET route == "POST /skills"
        errs == SkillPostErrors(body)
        m == RunChain(SkillsPostChain, token, errs, <<>>)
        b == IF "rules" \in Range(m.ran) THEN Sanitized(body) ELSE body
        ise == Reply(route, token, m.ran, 500, "Server error while creating skill", <<>>)
        final(r) == [done |-> TRUE, resp |-> r, data |-> b, ran |-> m.ran]
    IN IF m.stopped THEN final(ReplyStopped(route, token, m, errs))
       ELSE IF ~HasUser(m.ran) THEN final(ise)
       ELSE IF token # "admin"
       THEN final(Reply(route, token, m.ran, 403,
                        "Admin access required to create skills", <<>>))
       ELSE IF RegexThrows(b.name) \/ RegexThrows(b.category) THEN final(ise)
       ELSE IF ExistingSkill(store, BadId, b.name, b.category) # {}
       THEN final(Reply(route, token, m.ran, 400,
                        "Skill with this name already exists in this category", <<>>))
       ELSE [done |-> FALSE, resp |-> NoReply, data |-> b, ran |-> m.ran]

\* new Skill(skillData); await skill.save(); the catch block answers every
\* error of the save, the duplicate-key error included, with 500.
SkillsPostSave(store, nid, token, data, ran) ==
    LET route == "POST /skills"
        doc == NewSkill(nid, data)
    IN IF DupKey(store, doc)
       THEN SkillOutcome(Reply(route, token, ran, 500,
                               "Server error while creating skill", <<>>), store, nid)
       ELSE SkillOutcome(Reply(route, token, ran, 201, "", <<doc>>),
                         Append(store, doc), nid + 1)

\* POST /skills, run without interruption.
SkillsPost(store, nid, token, body) ==
    LET pre == SkillsPostPre(store, token, body)
    IN IF pre.done THEN SkillOutcome(pre.resp, store, nid)
       ELSE SkillsPostSave(store, nid, token, pre.data, pre.ran)

\* Assignments that write every field, sent or not.
ApplySkillUpdateAll(skill, b) ==
    [id |-> skill.id, name |-> IF "name" \in b.has THEN b.name ELSE skill.name,
     category |-> IF "category" \in b.has THEN b.category ELSE skill.category,
     isVisible |-> b.isVisible, order |-> b.order]

\* The assignments of PUT: only the fields sent are written.
ApplySkillUpdate(skill, b) ==
    [id |-> skill.id,
     name |-> IF "name" \in b.has THEN b.name ELSE skill.name,
     category |-> IF "category" \in b.has THEN b.category ELSE skill.category,
     isVisible |-> IF "isVisible" \in b.has THEN b.isVisible ELSE skill.isVisible,
     order |-> IF "order" \in b.has THEN b.order ELSE skill.order]

ReplaceDoc(store, doc) ==
    [i \in 1..Len(store) |-> IF store[i].id = doc.id THEN doc ELSE store[i]]

\* PUT /skills/:id
SkillsPut(store, nid, token, id, body) ==
    LET route == "PUT /skills/:id"
        errs == SkillPutErrors(body)
        m == RunChain(SkillsPutChain, token, errs, <<>>)
        b == IF "rules" \in Range(m.ran) THEN Sanitized(body) ELSE body
        out(status, message, docs) ==
            SkillOutcome(Reply(route, token, m.ran, status, message, docs), store, nid)
        ise == out(500, "Server error while updating skill", <<>>)
    IN IF m.stopped THEN SkillOutcome(ReplyStopped(route, token, m, errs), store, nid)
       ELSE IF ~HasUser(m.ran) THEN ise
       ELSE IF token # "admin"
       THEN out(403, "Admin access required to update skills", <<>>)
       ELSE IF id = BadId THEN out(404, "Skill not found with provided ID", <<>>)
       ELSE IF FindSkill(store, id) = {} THEN out(404, "Skill not found", <<>>)
       ELSE
         LET skill == CHOOSE s \in FindSkill(store, id) : TRUE
             rename == "name" \in b.has \/ "category" \in b.has
             checkName == IF "name" \in b.has /\ b.name # <<>> THEN b.name ELSE skill.name
             checkCategory ==
                 IF "category" \in b.has /\ b.category # <<>>
                 THEN b.category ELSE skill.category
             updated == ApplySkillUpdate(skill, b)
         IN IF rename /\ (RegexThrows(checkName) \/ RegexThrows(checkCategory)) THEN ise
            ELSE IF rename /\ ExistingSkill(store, id, checkName, checkCategory) # {}
            THEN out(400, "Another skill with this name exists in this category", <<>>)
            ELSE IF DupKey(store, updated) THEN ise
            ELSE SkillOutcome(Reply(route, token, m.ran, 200, "", <<updated>>),
                              ReplaceDoc(store, updated), nid)

\* DELETE /skills/:id
SkillsDelete(store, nid, token, id) ==
    LET route == "DELETE /skills/:id"
        m == RunChain(SkillsDeleteChain, token, {}, <<>>)
        out(status, message) ==
            SkillOutcome(Reply(route, token, m.ran, status, message, <<>>), store, nid)
    IN IF m.stopped THEN SkillOutcome(ReplyStopped(route, token, m, {}), store, nid)
       ELSE IF ~HasUser(m.ran) THEN out(500, "Server error while deleting skill")
       ELSE IF token # "admin"
       THEN out(403, "Admin access required to delete skills")
       ELSE IF id = BadId THEN out(404, "Skill not found with provided ID")
       ELSE IF FindSkill(store, id) = {} THEN out(404, "Skill not found")
       ELSE SkillOutcome(
                Reply(route, token, m.ran, 200, "Skill deleted successfully", <<>>),
                SelectSeq(store, LAMBDA s : s.id # id), nid)

\* Skill.insertMany(docs, { ordered: false }): every document is tried in
\* order; one that the unique index rejects is skipped and remembered.
\* failed holds the positions in the batch of the rejected documents; at is
\* the position of Head(docs).
RECURSIVE InsertMany(_, _, _, _, _, _)
InsertMany(store, nid, docs, at, created, failed) ==
    IF docs = <<>>
    THEN [skills |-> store, nextId |-> nid, created |-> created, failed |-> failed]
    ELSE LET doc == NewSkill(nid, Head(docs))
         IN IF DupKey(store, doc)
            THEN InsertMany(store, nid, Tail(docs), at + 1, created, Append(failed, at))
            ELSE InsertMany(Append(store, doc), nid + 1, Tail(docs), at + 1,
                            Append(created, doc), failed)

\* The validation loop of POST /skills/bulk over the elements before index i:
\* 0 when all pass, else the status message number of the first failure
\* (1: name or category missing, 2: proficiency out of range).
RECURSIVE BulkInvalid(_, _)
BulkInvalid(batch, i) ==
    IF i > Len(batch) THEN 0
    ELSE LET e == batch[i]
         IN IF \/ "name" \notin e.has \/ e.name = <<>>
               \/ "category" \notin e.has \/ e.category = <<>>
            THEN 1
            ELSE IF "proficiency" \in e.has /\ (e.proficiency < 0 \/ e.proficiency > 100)
            THEN 2
            ELSE BulkInvalid(batch, i + 1)

\* res.status(400).json({ message, details: error.message }): the text of
\* the bulk write error is that of its first write error, so details names
\* the first rejected document only.
BulkConflictReply(route, token, ran, failed) ==
    [Reply(route, token, ran, 400, "One or more skills already exist", <<>>)
        EXCEPT !.details = <<Head(failed)>>]

\* A validation loop that looks at the first element only.
BulkFirstInvalid(batch) ==
    IF batch = <<>> THEN 0 ELSE BulkInvalid(<<batch[1]>>, 1)

\* The outcome of the whole validation loop of POST /skills/bulk.
BulkBatchInvalid(batch) == BulkInvalid(batch, 1)

\* POST /skills/bulk; isArray tells whether req.body.skills is an array.
SkillsBulk(store, nid, token, isArray, batch) ==
    LET route == "POST /skills/bulk"
        m == RunChain(SkillsBulkChain, token, {}, <<>>)
        out(status, message) ==
            SkillOutcome(Reply(route, token, m.ran, status, message, <<>>), store, nid)
        invalid == BulkBatchInvalid(batch)
        docs == [i \in 1..Len(batch) |-> Sanitized(batch[i])]
        ins == InsertMany(store, nid, docs, 1, <<>>, <<>>)
    IN IF m.stopped THEN SkillOutcome(ReplyStopped(route, token, m, {}), store, nid)
       ELSE IF ~HasUser(m.ran) THEN out(500, "Server error during bulk skill creation")
       ELSE IF token # "admin"
       THEN out(403, "Admin access required for bulk skill creation")
       ELSE IF ~isArray \/ batch = <<>>
       THEN out(400, "An array of skills is required for bulk creation")
       ELSE IF invalid = 1 THEN out(400, "Each skill must have a name and category")
       ELSE IF invalid = 2 THEN out(400, "Skill proficiency must be between 0 and 100")
       ELSE IF ins.failed # <<>>
       THEN SkillOutcome(BulkConflictReply(route, token, m.ran, ins.failed),
                         ins.skills, ins.nextId)
       ELSE SkillOutcome(Reply(route, token, m.ran, 201, "", ins.created),
                         ins.skills, ins.nextId)

----------------------------------------------------------------------------
(* Inputs of the skill requests *)

\* The fields a request body can carry; a field outside has is not sent and
\* its value below is a placeholder that no handler reads.
SkillBody(has, name, category, isVisible, order) ==
    [has |-> has, name |-> name, category |-> category,
     isVisible |-> isVisible, order |-> order, proficiency |-> 0]

NameInputs ==
    {<<"c">>, <<"C">>, <<"c", "+">>, <<"C", "+">>, <<" ", "c">>, <<"+">>, <<" ">>}

CategoryInputs == {CatFrontend, CatBackend, <<"x">>}

\* Requests of a caller who is no admin: one body stands for all, since the
\* request ends before the body is read.
NonAdmins == {"none", "invalid", "user"}

SkillPostBodies ==
    {SkillBody({"name", "category"}, n, c, TRUE, 0) :
        n \in NameInputs, c \in CategoryInputs}
    \cup {SkillBody({"category"}, <<>>, CatFrontend, TRUE, 0),
          SkillBody({"name"}, <<"c">>, <<>>, TRUE, 0)}

SkillPostInputs ==
    ({"admin"} \X SkillPostBodies)
    \cup (NonAdmins \X {SkillBody({"name", "category"}, <<"c">>, CatFrontend, TRUE, 0)})

SkillPutBodies ==
    {SkillBody({"name"}, n, <<>>, TRUE, 0) : n \in NameInputs}
    \cup {SkillBody({"category"}, <<>>, c, TRUE, 0) : c \in CategoryInputs}
    \cup {SkillBody({"name", "category"}, <<"C", "+">>, CatBackend, TRUE, 0),
          SkillBody({"name", "category"}, <<"c">>, CatFrontend, TRUE, 0),
          SkillBody({}, <<>>, <<>>, TRUE, 0)}

SkillIdInputs == {BadId} \cup 1..MaxSkillIds

SkillPutInputs ==
    ({"admin"} \X SkillIdInputs \X SkillPutBodies)
    \cup (NonAdmins \X {1} \X {SkillBody({"name"}, <<"c">>, <<>>, TRUE, 0)})

SkillDeleteInputs == ({"admin"} \X SkillIdInputs) \cup (NonAdmins \X {1})

BulkElementInputs ==
    {SkillBody({"name", "category"}, <<"c", "+">>, CatFrontend, TRUE, 0),
     SkillBody({"name", "category"}, <<"C", "+", " ">>, CatFrontend, TRUE, 0),
     SkillBody({"name"}, <<"c">>, <<>>, TRUE, 0),
     [SkillBody({"name", "category", "proficiency"}, <<"c">>, CatBackend, TRUE, 0)
        EXCEPT !.proficiency = 101]}

BatchInputs == UNION {[1..n -> BulkElementInputs] : n \in 0..MaxBatch}

SkillBulkInputs ==
    ({"admin"} \X {TRUE} \X BatchInputs)
    \cup ({"admin"} \X {FALSE} \X {<<>>})
    \cup (NonAdmins \X {TRUE} \X {f \in BatchInputs : Len(f) = 1 /\ BulkInvalid(f, 1) = 0})

SkillQueryInputs ==
    {[has |-> {}, category |-> <<>>, sort |-> "name"],
     [has |-> {"category"}, category |-> CatFrontend, sort |-> "name"],
     [has |-> {"category"}, category |-> <<"B", "a", "c", "k", "e", "n", "d">>, sort |-> "name"],
     [has |-> {"category"}, category |-> <<".", "+">>, sort |-> "name"],
     [has |-> {"category"}, category |-> <<"+">>, sort |-> "name"],
     [has |-> {"category"}, category |-> <<>>, sort |-> "name"],
     [has |-> {"sort"}, category |-> <<>>, sort |-> "category"]}

----------------------------------------------------------------------------
(* State machine *)

\* A request slot with no request in flight.
Idle == [kind |-> "idle", token |-> "none", ran |-> <<>>]

\* useState(null), useState(true); the mount effect has not run yet and no
\* login is in flight.  check is the position of checkAuth: "start" before
\* it ran, "waiting" at its await with the token it sent, "done" after it.
ProviderInit ==
    [user |-> <<>>, loading |-> TRUE, check |-> "start", checkToken |-> <<>>, logins |-> 0]

\* AdminSkills: useState([]) for skills, the blank new-skill form,
\* useState(null) for editingSkill; request is the fetch handleSubmit sent
\* last.
SkillsPageInit ==
    [skills |-> <<>>,
     newSkill |-> [name |-> <<>>, category |-> CatFrontend, isVisible |-> TRUE,
                   order |-> 0],
     editingSkill |-> <<>>,
     request |-> <<>>]

\* ProjectForm before it is opened: no route, the blank form.
ProjectFormInit ==
    [route |-> "", id |-> <<>>, project |-> [title |-> "", category |-> "web"],
     loading |-> FALSE, alert |-> ""]

\* ProjectDetail: useState(null) for project, useState(0) for
\* currentImageIndex, useState(true) for loading; id is the route parameter
\* and fetching tells whether fetchProject is at its await.
DetailInit ==
    [id |-> 0, project |-> <<>>, currentImageIndex |-> 0, loading |-> TRUE, error |-> "",
     fetching |-> FALSE]

\* MERNProjectTester constructor: this.results, its properties in the order
\* they are written; report is what generateReport printed last.
TesterInit ==
    [frontend |-> <<>>, backend |-> <<>>, database |-> <<>>, overall |-> <<>>,
     errors |-> <<>>, warnings |-> <<>>, score |-> 0, report |-> <<>>]

Init ==
    /\ projects = <<>>
    /\ skills = <<>>
    /\ nextId = 1
    /\ resp = NoReply
    /\ pending = [slot \in 1..MaxInflight |-> Idle]
    /\ contacts = <<>>
    /\ adminContact = [contacts |-> <<>>, selectedContact |-> <<>>, calls |-> {}]
    /\ storage = <<>>
    /\ sent = <<>>
    /\ provider = ProviderInit
    /\ skillsPage = SkillsPageInit
    /\ projectForm = ProjectFormInit
    /\ detail = DetailInit
    /\ tester = TesterInit

ApplySkill(o) ==
    /\ resp' = o.resp
    /\ skills' = o.skills
    /\ nextId' = o.nextId
    /\ UNCHANGED <<projects, pending, browser, pages>>

PostSkillFrom(inputs) ==
    \E in \in inputs :
        /\ nextId <= MaxSkillIds
        /\ ApplySkill(SkillsPost(skills, nextId, in[1], in[2]))

PutSkillFrom(inputs) ==
    \E in \in inputs :
        ApplySkill(SkillsPut(skills, nextId, in[1], in[2], in[3]))

DeleteSkillFrom(inputs) ==
    \E in \in inputs :
        ApplySkill(SkillsDelete(skills, nextId, in[1], in[2]))

PostSkillsBulkFrom(inputs) ==
    \E in \in inputs :
        /\ nextId <= MaxSkillIds
        /\ ApplySkill(SkillsBulk(skills, nextId, in[1], in[2], in[3]))

GetSkills ==
    \E token \in {"none", "user"}, q \in SkillQueryInputs :
        ApplySkill(SkillOutcome(SkillsList(skills, token, q), skills, nextId))

GetSkillsAdminAll ==
    \E token \in Tokens :
        ApplySkill(SkillOutcome(SkillsAdminAll(skills, token), skills, nextId))

PostSkill == PostSkillFrom(SkillPostInputs)
PutSkill == PutSkillFrom(SkillPutInputs)
DeleteSkill == DeleteSkillFrom(SkillDeleteInputs)
PostSkillsBulk == PostSkillsBulkFrom(SkillBulkInputs)

NextSkills ==
    \/ PostSkill
    \/ PutSkill
    \/ DeleteSkill
    \/ PostSkillsBulk

SpecSkills == Init /\ [][NextSkills]_vars

----------------------------------------------------------------------------
(* Properties of the skill router under sequential requests *)

SameKey(a, b) ==
    /\ LowerStr(a.name) = LowerStr(b.name)
    /\ LowerStr(a.category) = LowerStr(b.category)

PostDuplicates(store, body) ==
    /\ SkillPostErrors(body) = {}
    /\ \E s \in Range(store) : SameKey(s, Sanitized(body))

\* C6: an admin POST /skills whose name equals, ignoring case, the name of a
\* stored skill of the same category is answered with the Conflict error and
\* adds no skill, whatever characters the name contains.
C6_DuplicatePostConflicts ==
    [][resp'.route = "POST /skills" =>
        \A in \in SkillPostInputs :
          ( /\ in[1] = "admin"
            /\ PostDuplicates(skills, in[2])
            /\ resp' = SkillsPost(skills, nextId, in[1], in[2]).resp )
          => ( /\ resp'.status = 400
               /\ resp'.message = "Skill with this name already exists in this category"
               /\ skills' = skills )]_vars

\* The prospective (name, category) of a PUT on skill id.
Prospective(store, id, body) ==
    ApplySkillUpdate(CHOOSE s \in FindSkill(store, id) : TRUE, Sanitized(body))

\* C7: an admin PUT /skills/:id whose prospective (name, category) equals,
\* ignoring case, that of a different stored skill is answered with Conflict
\* and changes nothing; a PUT that sends the skill's own unchanged name and
\* category succeeds.
C7_PutConflictOrOwnPair ==
    [][resp'.route = "PUT /skills/:id" =>
        \A in \in SkillPutInputs :
          ( /\ in[1] = "admin"
            /\ FindSkill(skills, in[2]) # {}
            /\ SkillPutErrors(in[3]) = {}
            /\ in[3].has \cap {"name", "category"} # {}
            /\ resp' = SkillsPut(skills, nextId, in[1], in[2], in[3]).resp )
          => LET own == CHOOSE s \in FindSkill(skills, in[2]) : TRUE
                 next == Prospective(skills, in[2], in[3])
                 collides == \E s \in Range(skills) : s.id # own.id /\ SameKey(s, next)
             IN /\ collides =>
                    /\ resp'.status = 400
                    /\ resp'.message = "Another skill with this name exists in this category"
                    /\ skills' = skills
                /\ (next = own /\ in[3].has = {"name", "category"}) =>
                    resp'.status = 200]_vars

\* An element of a bulk batch that lacks a name or a category, or whose
\* proficiency lies outside 0..100.
BadBulkElement(e) ==
    \/ ~({"name", "category"} \subseteq e.has)
    \/ e.name = <<>>
    \/ e.category = <<>>
    \/ "proficiency" \in e.has /\ ~(e.proficiency \in 0..100)

\* C11: a POST /skills/bulk whose array holds an element without a name or a
\* category, or with a proficiency outside 0..100, is rejected as a whole with
\* status 400: no element is inserted, the valid ones before the bad element
\* included, and the store is unchanged.
C11_BulkInvalidRejectsWholeBatch ==
    [][resp'.route = "POST /skills/bulk" =>
        \A in \in SkillBulkInputs :
          ( /\ in[1] = "admin"
            /\ in[2]
            /\ \E i \in 1..Len(in[3]) : BadBulkElement(in[3][i])
            /\ resp' = SkillsBulk(skills, nextId, in[1], in[2], in[3]).resp )
          => /\ resp'.status = 400
             /\ resp'.message \in {"Each skill must have a name and category",
                                   "Skill proficiency must be between 0 and 100"}
             /\ skills' = skills
             /\ nextId' = nextId]_vars

\* A bulk request was rejected by the validation loop while a skill is
\* stored.
C11_Witness ==
    /\ resp.route = "POST /skills/bulk"
    /\ resp.status = 400
    /\ resp.message \in {"Each skill must have a name and category",
                          "Skill proficiency must be between 0 and 100"}
    /\ Len(skills) >= 1

\* The positions of the elements of a valid batch that collide, ignoring
\* case, with a stored skill or with an earlier element of the batch.
CollidingPositions(store, batch) ==
    {i \in 1..Len(batch) :
        \/ \E s \in Range(store) : SameKey(s, Sanitized(batch[i]))
        \/ \E j \in 1..(i - 1) : SameKey(Sanitized(batch[j]), Sanitized(batch[i]))}

\* C12: a POST /skills/bulk whose batch passes validation but holds elements
\* that collide with the uniqueness constraint keeps every stored skill,
\* inserts every element that does not collide, and its response reports
\* which records failed.
C12_BulkPartialInsertReportsFailures ==
    [][resp'.route = "POST /skills/bulk" =>
        \A in \in SkillBulkInputs :
          ( /\ in[1] = "admin"
            /\ in[2]
            /\ \A i \in 1..Len(in[3]) : ~BadBulkElement(in[3][i])
            /\ CollidingPositions(skills, in[3]) # {}
            /\ resp' = SkillsBulk(skills, nextId, in[1], in[2], in[3]).resp )
          => /\ \A i \in 1..Len(skills) : skills'[i] = skills[i]
             /\ \A i \in 1..Len(in[3]) :
                    i \notin CollidingPositions(skills, in[3])
                        => \E s \in Range(skills') : SameKey(s, Sanitized(in[3][i]))
             /\ Len(skills') = Len(skills) + Len(in[3])
                                  - Cardinality(CollidingPositions(skills, in[3]))
             /\ Range(resp'.details) = CollidingPositions(skills, in[3])]_vars

----------------------------------------------------------------------------
(* The Project collection *)

\* An ObjectId is kept as the number its 24 hexadecimal digits denote.
HexDigits == Digits \o <<"a", "b", "c", "d", "e", "f">>

HexChars == Range(HexDigits) \cup {"A", "B", "C", "D", "E", "F"}

\* /^[0-9a-fA-F]{24}$/.test(identifier)
IsObjectId(s) == Len(s) = 24 /\ \A i \in 1..24 : s[i] \in HexChars

HexDigitValueOf ==
    [c \in HexChars |-> (CHOOSE i \in 1..16 : HexDigits[i] = Lower(c)) - 1]

\* The value of the first n hexadecimal digits of s.
RECURSIVE HexPrefixValue(_, _)
HexPrefixValue(s, n) ==
    IF n = 0 THEN 0 ELSE 16 * HexPrefixValue(s, n - 1) + HexDigitValueOf[s[n]]

\* The cast of a 24-digit hexadecimal string to an ObjectId.
HexValue(s) == HexPrefixValue(s, Len(s))

\* The string form of the ObjectId n, for n below 16.
HexId(n) == [i \in 1..24 |-> IF i = 24 THEN HexDigits[n + 1] ELSE "0"]

\* new Project(req.body): the fields of the body become the document.
NewProject(id, b) ==
    [id |-> id, title |-> b.title, slug |-> b.slug, category |-> b.category,
     isPublished |-> b.isPublished, isFeatured |-> b.isFeatured,
     priority |-> b.priority, createdAt |-> id]

\* The unique index on title (error code 11000).
DupTitle(store, doc) ==
    \E p \in Range(store) : p.id # doc.id /\ p.title = doc.title

\* validateProject: the field rules of a project body.
ProjectErrors(b) == {f \in {"title"} : b.title = ""}

\* validateId: the id parameter must be an ObjectId.
IdErrors(id) == {f \in {"id"} : id = BadId}

\* { $text: { $search: term } } over the text index.
TextMatches(p, term) == p.title = term

\* sort({ priority: -1, createdAt: -1 })
ProjectLess(a, b) ==
    \/ a.priority > b.priority
    \/ (a.priority = b.priority /\ a.createdAt > b.createdAt)

\* sort({ createdAt: -1 })
ProjectNewerFirst(a, b) == a.createdAt > b.createdAt

\* parseInt(value) || fallback, for a parameter that is absent or a number
ParseIntOr(present, value, fallback) ==
    IF ~present \/ value = 0 THEN fallback ELSE value

\* Math.ceil(a / b) for b > 0
CeilDiv(a, b) == (a + b - 1) \div b

\* A cursor on which .skip() was left out.
SkipNothing(seq, n) == seq

\* .skip(n)
Skip(seq, n) == SubSeq(seq, n + 1, Len(seq))

----------------------------------------------------------------------------
(* Project router *)

ProjectsListChain == <<"pagination">>
ProjectsFeaturedChain == <<>>
ProjectsGetOneChain == <<>>
ProjectsPostChainOpen == <<"rules">>
ProjectsPostChain == <<"auth", "rules">>
ProjectsPutChain == <<"auth", "idrule", "rules">>
ProjectsDeleteChain == <<"auth", "idrule">>
ProjectsAdminAllChain == <<"auth">>

FeaturedLimit == 6
DefaultPage == 1
DefaultLimit == 10

ProjectOutcome(r, store, nid) == [resp |-> r, projects |-> store, nextId |-> nid]

\* The filter of GET /projects started from an empty query object.
ProjectsListQueryUnflagged(q, p) ==
    /\ ("category" \in q.has /\ q.category # "") => p.category = q.category
    /\ ("featured" \in q.has /\ q.featured = "true") => p.isFeatured = TRUE
    /\ ("search" \in q.has /\ q.search # "") => TextMatches(p, q.search)
    /\ "exclude" \in q.has => p.id # q.exclude

\* The filter GET /projects builds from its query string.
ProjectsListQuery(q, p) ==
    /\ p.isPublished = TRUE
    /\ ("category" \in q.has /\ q.category # "") => p.category = q.category
    /\ ("featured" \in q.has /\ q.featured = "true") => p.isFeatured = TRUE
    /\ ("search" \in q.has /\ q.search # "") => TextMatches(p, q.search)
    /\ "exclude" \in q.has => p.id # q.exclude

\* GET /projects, with the collection as find() reads it and the collection
\* as countDocuments() reads it after the next await.
ProjectsListAcross(store, counted, token, q) ==
    LET route == "GET /projects"
        m == RunChain(ProjectsListChain, token, {}, <<>>)
        page == ParseIntOr("page" \in q.has, q.page, DefaultPage)
        limit == ParseIntOr("limit" \in q.has, q.limit, DefaultLimit)
        skip == (page - 1) * limit
        match(p) == ProjectsListQuery(q, p)
        found == SortBy(SelectSeq(store, match), ProjectLess)
        total == Len(SelectSeq(counted, match))
    IN IF "exclude" \in q.has /\ q.exclude = BadId
       THEN Reply(route, token, m.ran, 500, "Server error", <<>>)
       ELSE [Reply(route, token, m.ran, 200, "", Take(Skip(found, skip), limit))
                EXCEPT !.pagination = [page |-> page, limit |-> limit, total |-> total,
                                       pages |-> CeilDiv(total, limit)]]

\* GET /projects with no write between its two reads.
ProjectsList(store, token, q) == ProjectsListAcross(store, store, token, q)

\* GET /projects/featured without .limit(6)
ProjectsFeaturedUncapped(store, token) ==
    LET match(p) == p.isPublished = TRUE /\ p.isFeatured = TRUE
    IN Reply("GET /projects/featured", token, <<>>, 200, "",
             SortBy(SelectSeq(store, match), ProjectLess))

\* GET /projects/featured
ProjectsFeatured(store, token) ==
    LET m == RunChain(ProjectsFeaturedChain, token, {}, <<>>)
        match(p) == p.isPublished = TRUE /\ p.isFeatured = TRUE
    IN Reply("GET /projects/featured", token, m.ran, 200, "",
             Take(SortBy(SelectSeq(store, match), ProjectLess), FeaturedLimit))

\* A lookup that tries the id and falls back to the slug.
ProjectsGetOneEither(store, identifier) ==
    LET isObjectId == IsObjectId(identifier)
        oid == IF isObjectId THEN HexValue(identifier) ELSE BadId
    IN {p \in Range(store) :
          /\ (isObjectId /\ p.id = oid) \/ p.slug = identifier
          /\ p.isPublished = TRUE}

\* The documents findOne can return for GET /projects/:identifier.
ProjectsGetOneMatches(store, identifier) ==
    LET isObjectId == IsObjectId(identifier)
        oid == IF isObjectId THEN HexValue(identifier) ELSE BadId
    IN {p \in Range(store) :
          /\ IF isObjectId THEN p.id = oid ELSE p.slug = identifier
          /\ p.isPublished = TRUE}

\* GET /projects/:identifier, answering with found (one of the matches)
ProjectsGetOne(store, token, identifier, found) ==
    LET route == "GET /projects/:identifier"
        m == RunChain(ProjectsGetOneChain, token, {}, <<>>)
    IN IF ProjectsGetOneMatches(store, identifier) = {}
       THEN Reply(route, token, m.ran, 404, "Project not found", <<>>)
       ELSE Reply(route, token, m.ran, 200, "", <<found>>)

\* POST /projects up to its store write: either the final response (done)
\* or the body that is about to be saved.
ProjectsPostPre(token, body) ==
    LET route == "POST /projects"
        errs == ProjectErrors(body)
        m == RunChain(ProjectsPostChain, token, errs, <<>>)
        seen == IF "rules" \in Range(m.ran) THEN errs ELSE {}
        final(r) == [done |-> TRUE, resp |-> r, data |-> body, ran |-> m.ran]
    IN IF m.stopped THEN final(ReplyStopped(route, token, m, errs))
       ELSE IF seen # {} THEN final(ReplyErrors(route, token, m.ran, seen))
       ELSE [done |-> FALSE, resp |-> NoReply, data |-> body, ran |-> m.ran]

\* A catch block that answers every store error, the duplicate-key error
\* included, with the generic message.
ProjectsPostSaveGeneric(store, nid, token, body, ran) ==
    LET route == "POST /projects"
        doc == NewProject(nid, body)
    IN IF \E p \in Range(store) : p.title = doc.title
       THEN [resp |-> Reply(route, token, ran, 500, "Server error", <<>>),
             projects |-> store, nextId |-> nid]
       ELSE [resp |-> Reply(route, token, ran, 201, "", <<doc>>),
             projects |-> Append(store, doc), nextId |-> nid + 1]

\* new Project(req.body); await project.save(); the catch block answers the
\* duplicate-key error with its own message.
ProjectsPostSave(store, nid, token, body, ran) ==
    LET route == "POST /projects"
        doc == NewProject(nid, body)
    IN IF DupTitle(store, doc)
       THEN ProjectOutcome(Reply(route, token, ran, 400,
                                 "Project with this title already exists", <<>>),
                           store, nid)
       ELSE ProjectOutcome(Reply(route, token, ran, 201, "", <<doc>>),
                           Append(store, doc), nid + 1)

\* POST /projects, run without interruption.
ProjectsPost(store, nid, token, body) ==
    LET pre == ProjectsPostPre(token, body)
    IN IF pre.done THEN ProjectOutcome(pre.resp, store, nid)
       ELSE ProjectsPostSave(store, nid, token, pre.data, pre.ran)

\* findByIdAndUpdate(id, req.body, { new: true }): the fields of the body
\* replace those of the document.
ApplyProjectUpdate(p, b) ==
    [NewProject(p.id, b) EXCEPT !.createdAt = p.createdAt]

\* PUT /projects/:id
ProjectsPut(store, nid, token, id, body) ==
    LET route == "PUT /projects/:id"
        errs == IdErrors(id) \cup ProjectErrors(body)
        m == RunChain(ProjectsPutChain, token, errs, <<>>)
        seen == (IF "idrule" \in Range(m.ran) THEN IdErrors(id) ELSE {})
                \cup (IF "rules" \in Range(m.ran) THEN ProjectErrors(body) ELSE {})
        hit == {p \in Range(store) : p.id = id}
        out(r) == ProjectOutcome(r, store, nid)
    IN IF m.stopped THEN out(ReplyStopped(route, token, m, errs))
       ELSE IF seen # {} THEN out(ReplyErrors(route, token, m.ran, seen))
       ELSE IF id = BadId THEN out(Reply(route, token, m.ran, 500, "Server error", <<>>))
       ELSE IF hit = {}
       THEN out(Reply(route, token, m.ran, 404, "Project not found", <<>>))
       ELSE LET updated == ApplyProjectUpdate(CHOOSE p \in hit : TRUE, body)
            IN IF DupTitle(store, updated)
               THEN out(Reply(route, token, m.ran, 400,
                              "Project with this title already exists", <<>>))
               ELSE ProjectOutcome(Reply(route, token, m.ran, 200, "", <<updated>>),
                                   ReplaceDoc(store, updated), nid)

\* A delete that confirms whether or not a project was found.
ProjectsDeleteAlwaysConfirms(store, nid, token, id) ==
    LET route == "DELETE /projects/:id"
        m == RunChain(ProjectsDeleteChain, token, IdErrors(id), <<>>)
    IN IF m.stopped \/ id = BadId
       THEN [resp |-> ReplyStopped(route, token, m, IdErrors(id)),
             projects |-> store, nextId |-> nid]
       ELSE [resp |-> Reply(route, token, m.ran, 200, "Project deleted successfully", <<>>),
             projects |-> SelectSeq(store, LAMBDA p : p.id # id), nextId |-> nid]

\* DELETE /projects/:id
ProjectsDelete(store, nid, token, id) ==
    LET route == "DELETE /projects/:id"
        errs == IdErrors(id)
        m == RunChain(ProjectsDeleteChain, token, errs, <<>>)
        seen == IF "idrule" \in Range(m.ran) THEN errs ELSE {}
        out(r) == ProjectOutcome(r, store, nid)
    IN IF m.stopped THEN out(ReplyStopped(route, token, m, errs))
       ELSE IF seen # {} THEN out(ReplyErrors(route, token, m.ran, seen))
       ELSE IF id = BadId THEN out(Reply(route, token, m.ran, 500, "Server error", <<>>))
       ELSE IF {p \in Range(store) : p.id = id} = {}
       THEN out(Reply(route, token, m.ran, 404, "Project not found", <<>>))
       ELSE ProjectOutcome(
                Reply(route, token, m.ran, 200, "Project deleted successfully", <<>>),
                SelectSeq(store, LAMBDA p : p.id # id), nid)

\* An admin list that keeps the publication filter of the public list.
ProjectsAdminAllPublished(store, token) ==
    LET route == "GET /projects/admin/all"
        m == RunChain(ProjectsAdminAllChain, token, {}, <<>>)
    IN IF m.stopped THEN ReplyStopped(route, token, m, {})
       ELSE Reply(route, token, m.ran, 200, "",
                  SortBy(SelectSeq(store, LAMBDA p : p.isPublished = TRUE),
                         ProjectNewerFirst))

\* GET /projects/admin/all
ProjectsAdminAll(store, token) ==
    LET route == "GET /projects/admin/all"
        m == RunChain(ProjectsAdminAllChain, token, {}, <<>>)
    IN IF m.stopped THEN ReplyStopped(route, token, m, {})
       ELSE Reply(route, token, m.ran, 200, "", SortBy(store, ProjectNewerFirst))

----------------------------------------------------------------------------
(* Inputs of the project requests *)

ProjectBody(title, slug, category, isPublished, isFeatured, priority) ==
    [title |-> title, slug |-> slug, category |-> category,
     isPublished |-> isPublished, isFeatured |-> isFeatured, priority |-> priority]

SlugA == <<"a">>
SlugB == <<"b", "-", "2">>

ProjectBodies ==
    {ProjectBody("t1", SlugA, "web", TRUE, TRUE, 1),
     ProjectBody("t2", HexId(1), "mobile", TRUE, FALSE, 0),
     ProjectBody("t1", SlugB, "web", FALSE, TRUE, 2),
     ProjectBody("t3", SlugB, "mobile", TRUE, TRUE, 1),
     ProjectBody("t3", SlugA, "web", FALSE, FALSE, 0),
     ProjectBody("", SlugA, "web", TRUE, TRUE, 1)}

ProjectIdInputs == {BadId} \cup 1..MaxProjectIds

QueryFields == {"page", "limit", "category", "featured", "search", "exclude"}

ProjectQuery(has, limit, featured, exclude) ==
    [has |-> has, page |-> 2, limit |-> limit, category |-> "web",
     featured |-> featured, search |-> "t1", exclude |-> exclude]

ProjectQueryInputs ==
    {ProjectQuery(h, 1, "true", 1) : h \in SUBSET QueryFields}
    \cup {ProjectQuery({"limit"}, 2, "true", 1),
          ProjectQuery({"featured"}, 1, "false", 1),
          ProjectQuery({"exclude"}, 1, "true", 2),
          ProjectQuery({"exclude"}, 1, "true", BadId)}

IdentifierInputs ==
    {HexId(n) : n \in 1..MaxProjectIds}
    \cup {[HexId(0) EXCEPT ![24] = "A"], SubSeq(HexId(1), 1, 23), SlugA, SlugB}

----------------------------------------------------------------------------
(* Project requests *)

ApplyProject(o) ==
    /\ resp' = o.resp
    /\ projects' = o.projects
    /\ nextId' = o.nextId
    /\ UNCHANGED <<skills, pending, browser, pages>>

GetProjectsFrom(inputs) ==
    \E q \in inputs :
        ApplyProject(ProjectOutcome(ProjectsList(projects, "none", q), projects, nextId))

GetProjects == GetProjectsFrom(ProjectQueryInputs)

GetFeatured ==
    \E token \in {"none", "user"} :
        ApplyProject(ProjectOutcome(ProjectsFeatured(projects, token), projects, nextId))

GetProject ==
    \E identifier \in IdentifierInputs :
        \/ /\ ProjectsGetOneMatches(projects, identifier) = {}
           /\ ApplyProject(ProjectOutcome(
                  ProjectsGetOne(projects, "none", identifier, NoReply), projects, nextId))
        \/ \E found \in ProjectsGetOneMatches(projects, identifier) :
              ApplyProject(ProjectOutcome(
                  ProjectsGetOne(projects, "none", identifier, found), projects, nextId))

PostProjectFrom(inputs) ==
    \E in \in inputs :
        /\ nextId <= MaxProjectIds
        /\ ApplyProject(ProjectsPost(projects, nextId, in[1], in[2]))

PutProjectFrom(inputs) ==
    \E in \in inputs :
        ApplyProject(ProjectsPut(projects, nextId, in[1], in[2], in[3]))

DeleteProjectFrom(inputs) ==
    \E in \in inputs :
        ApplyProject(ProjectsDelete(projects, nextId, in[1], in[2]))

\* Every body with an admin or a standard user's token (the route treats
\* them alike); one body for the callers the auth middleware turns away.
ProjectPostInputs ==
    ({"admin"} \X ProjectBodies)
    \cup ({"user", "none", "invalid"} \X {ProjectBody("t2", SlugA, "web", TRUE, TRUE, 1)})

ProjectPutInputs ==
    ({"admin"} \X ProjectIdInputs \X ProjectBodies)
    \cup ({"user", "none", "invalid"} \X {1}
          \X {ProjectBody("t2", SlugA, "web", TRUE, TRUE, 1)})

ProjectDeleteInputs ==
    ({"admin"} \X ProjectIdInputs) \cup ({"user", "none", "invalid"} \X {1})

PostProject == PostProjectFrom(ProjectPostInputs)
PutProject == PutProjectFrom(ProjectPutInputs)
DeleteProject == DeleteProjectFrom(ProjectDeleteInputs)

GetProjectsAdminAll ==
    \E token \in Tokens :
        ApplyProject(ProjectOutcome(ProjectsAdminAll(projects, token), projects, nextId))

Next ==
    \/ GetProjects
    \/ GetFeatured
    \/ GetProject
    \/ PostProject
    \/ PutProject
    \/ DeleteProject
    \/ GetProjectsAdminAll

Spec == Init /\ [][Next]_vars

----------------------------------------------------------------------------
(* Properties of the project router *)

\* C1: whatever projects admins created, updated and deleted, and for every
\* combination of page, limit, category, featured, search and exclude,
\* GET /projects returns no project whose isPublished flag is not true.
C1_ListOnlyPublished ==
    resp.route = "GET /projects" =>
        \A i \in 1..Len(resp.body) : resp.body[i].isPublished = TRUE

\* GET /projects returned something while an unpublished project is stored
\* that the other filters of the request would have let through.
C1_Witness ==
    /\ resp.route = "GET /projects"
    /\ resp.body # <<>>
    /\ resp.pagination.limit = DefaultLimit
    /\ \E p \in Range(projects) :
          p.isPublished = FALSE /\ p.category = resp.body[1].category

\* The shape of an ObjectId string, independent of the route's own test.
HexDigitSet == {HexDigits[k] : k \in 1..16}

LooksLikeId(s) == Len(s) = 24 /\ {Lower(s[i]) : i \in 1..Len(s)} \subseteq HexDigitSet

\* What GET /projects/:identifier has to answer for identifier.
GetOneExpected(store, identifier, r) ==
    LET byId == LooksLikeId(identifier)
        lowered == LowerStr(identifier)
        wanted(p) ==
            /\ p.isPublished = TRUE
            /\ IF byId THEN p.id < 16 /\ HexId(p.id) = lowered
               ELSE p.slug = identifier
    IN IF \E p \in Range(store) : wanted(p)
       THEN r.status = 200 /\ Len(r.body) = 1 /\ r.body[1] \in Range(store)
            /\ wanted(r.body[1])
       ELSE r.status = 404 /\ r.message = "Project not found" /\ r.body = <<>>

\* C10: GET /projects/:identifier looks a string of exactly 24 hexadecimal
\* characters up by id only and any other string by slug only, returns the
\* project only if it is published, and answers 404 when no published
\* project matches.
C10_GetOneByShape ==
    [][resp'.route = "GET /projects/:identifier" =>
        \A identifier \in IdentifierInputs :
          \A found \in ProjectsGetOneMatches(projects, identifier)
                        \cup {p \in {NoReply} :
                                ProjectsGetOneMatches(projects, identifier) = {}} :
            resp' = ProjectsGetOne(projects, "none", identifier, found)
                => GetOneExpected(projects, identifier, resp')]_vars

\* An identifier shaped like an id was answered with 404 although a
\* published project carries that very string as its slug.
C10_Witness ==
    /\ resp.route = "GET /projects/:identifier"
    /\ resp.status = 404
    /\ \E p \in Range(projects) : p.isPublished = TRUE /\ LooksLikeId(p.slug)
    /\ \A p \in Range(projects) : p.id # 1 \/ p.isPublished = FALSE

\* C13: an admin create or update of a project whose title is that of
\* another stored project is answered 400 "Project with this title already
\* exists", never with the generic server error, and the stored projects
\* stay as they were.
C13_DuplicateTitleConflicts ==
    [][resp'.route \in {"POST /projects", "PUT /projects/:id"} =>
        /\ \A in \in ProjectPostInputs :
              ( /\ in[1] = "admin"
                /\ in[2].title # ""
                /\ \E p \in Range(projects) : p.title = in[2].title
                /\ resp' = ProjectsPost(projects, nextId, in[1], in[2]).resp )
              => /\ resp'.status = 400
                 /\ resp'.message = "Project with this title already exists"
                 /\ projects' = projects
        /\ \A in \in ProjectPutInputs :
              ( /\ in[1] = "admin"
                /\ in[3].title # ""
                /\ \E p \in Range(projects) : p.id = in[2]
                /\ \E p \in Range(projects) : p.id # in[2] /\ p.title = in[3].title
                /\ resp' = ProjectsPut(projects, nextId, in[1], in[2], in[3]).resp )
              => /\ resp'.status = 400
                 /\ resp'.message = "Project with this title already exists"
                 /\ projects' = projects]_vars

\* An update was refused because another stored project carries the title.
C13_Witness ==
    /\ resp.route = "PUT /projects/:id"
    /\ resp.status = 400
    /\ resp.message = "Project with this title already exists"
    /\ Len(projects) = 2

\* Query strings that page through the listing, with and without filters.
PagingQueryInputs ==
    {[ProjectQuery(h, l, "true", 1) EXCEPT !.page = n] :
        h \in {{"page", "limit"}, {"page", "limit", "category"}}, n \in 1..3, l \in 1..2}
    \cup {ProjectQuery(h, 1, "true", 1) :
            h \in {{}, {"page"}, {"limit"}, {"featured"}, {"search"}, {"exclude"}}}

NextPaging ==
    \/ GetProjectsFrom(PagingQueryInputs)
    \/ PostProject
    \/ PutProject
    \/ DeleteProject

SpecPaging == Init /\ [][NextPaging]_vars

\* The published projects that pass the filters of the query string q.
Eligible(store, q) ==
    {p \in Range(store) :
        /\ p.isPublished = TRUE
        /\ "category" \in q.has => p.category = q.category
        /\ ("featured" \in q.has /\ q.featured = "true") => p.isFeatured = TRUE
        /\ "search" \in q.has => p.title = q.search
        /\ "exclude" \in q.has => p.id # q.exclude}

\* The position of p among the projects of set in the order priority
\* descending, then creation time descending, counted from 0.
PositionIn(set, p) ==
    Cardinality({o \in set :
        \/ o.priority > p.priority
        \/ o.priority = p.priority /\ o.createdAt > p.createdAt})

\* What GET /projects has to answer for the query string q.
ListExpected(store, q, r) ==
    LET page == IF "page" \in q.has THEN q.page ELSE 1
        limit == IF "limit" \in q.has THEN q.limit ELSE 10
        all == Eligible(store, q)
        total == Cardinality(all)
        first == (page - 1) * limit
        last == page * limit - 1
    IN /\ r.status = 200
       /\ r.pagination.page = page
       /\ r.pagination.limit = limit
       /\ r.pagination.total = total
       /\ r.pagination.pages * limit >= total
       /\ (r.pagination.pages - 1) * limit < total \/ r.pagination.pages = 0
       /\ Range(r.body) = {p \in all : PositionIn(all, p) \in first..last}
       /\ \A k \in 1..Len(r.body) : PositionIn(all, r.body[k]) = first + k - 1

\* C16: for every stored content and every page >= 1 and limit >= 1,
\* GET /projects returns exactly the elements at positions (page-1)*limit to
\* page*limit-1 of the published projects that pass the filters, ordered by
\* priority descending then creation time descending, with total the number
\* of those projects and pages = ceil(total/limit); an absent page counts as
\* 1 and an absent limit as 10.
C16_ListPageOfSortedMatches ==
    [][resp'.route = "GET /projects" =>
        \A q \in PagingQueryInputs :
          ( /\ "page" \in q.has => q.page >= 1
            /\ "limit" \in q.has => q.limit >= 1
            /\ "exclude" \in q.has => q.exclude # BadId
            /\ resp' = ProjectsList(projects, "none", q) )
          => ListExpected(projects, q, resp')]_vars

\* The second page of size one was answered with the project stored last,
\* which a lower priority puts behind the one stored before it.
C16_Witness ==
    /\ resp.route = "GET /projects"
    /\ resp.pagination.page = 2
    /\ resp.pagination.limit = 1
    /\ resp.pagination.total = 2
    /\ Len(resp.body) = 1
    /\ \E p \in Range(projects) :
          p.id < resp.body[1].id /\ p.priority > resp.body[1].priority

StoredIds(store) == {p.id : p \in Range(store)}

\* The ids that were given to a project that is stored no longer.
DeletedIds == {id \in 1..MaxProjectIds : id < nextId /\ id \notin StoredIds(projects)}

\* C17: an admin DELETE /projects/:id on an id that no stored project has is
\* answered 404 and changes nothing; on an id that a project has it removes
\* exactly that project, leaves the others as they were and confirms; from
\* then on GET /projects/:id and another DELETE of that id are answered 404.
C17_DeleteRemovesOneThenNotFound ==
    [][ /\ \A id \in 1..MaxProjectIds :
            LET o == ProjectsDelete(projects, nextId, "admin", id)
            IN IF id \in StoredIds(projects)
               THEN /\ o.resp.status = 200
                    /\ o.resp.message = "Project deleted successfully"
                    /\ StoredIds(o.projects) = StoredIds(projects) \ {id}
                    /\ Len(o.projects) = Len(projects) - 1
                    /\ \A p \in Range(projects) : p.id # id => p \in Range(o.projects)
               ELSE /\ o.resp.status = 404
                    /\ o.resp.message = "Project not found"
                    /\ o.projects = projects
        /\ (resp'.route = "DELETE /projects/:id" /\ resp'.token = "admin") =>
            \E id \in ProjectIdInputs :
                /\ resp' = ProjectsDelete(projects, nextId, "admin", id).resp
                /\ projects' = ProjectsDelete(projects, nextId, "admin", id).projects
        /\ \A id \in DeletedIds' :
            /\ ProjectsGetOne(projects', "none", HexId(id), NoReply).status = 404
            /\ ProjectsDelete(projects', nextId', "admin", id).resp.status = 404
            /\ ProjectsDelete(projects', nextId', "admin", id).projects = projects'
      ]_vars

\* Two projects were created, one of them was deleted, and a further DELETE
\* was answered 404.
C17_Witness ==
    /\ resp.route = "DELETE /projects/:id"
    /\ resp.status = 404
    /\ resp.token = "admin"
    /\ nextId = 3
    /\ Len(projects) = 1

----------------------------------------------------------------------------
(* The public and the admin listing of skills *)

SkillListPostInputs ==
    {"admin"} \X
    {SkillBody({"name", "category"} \cup o.has, k[1], k[2], o.isVisible, o.order) :
        k \in {<<<<"c">>, CatFrontend>>, <<<<"c">>, CatBackend>>, <<<<"d">>, CatFrontend>>},
        o \in {[has |-> {}, isVisible |-> TRUE, order |-> 0],
               [has |-> {"isVisible"}, isVisible |-> FALSE, order |-> 0]}}

SkillListPutInputs ==
    {"admin"} \X (1..MaxSkillIds) \X
    {SkillBody({"isVisible"}, <<>>, <<>>, FALSE, 0),
     SkillBody({"isVisible"}, <<>>, <<>>, TRUE, 0),
     SkillBody({"order"}, <<>>, <<>>, TRUE, 1)}

SkillListBulkInputs ==
    {"admin"} \X {TRUE} \X
    {<<SkillBody({"name", "category", "isVisible"}, <<"e">>, CatFrontend, FALSE, 0)>>}

NextSkillsList ==
    \/ GetSkills
    \/ GetSkillsAdminAll
    \/ PostSkillFrom(SkillListPostInputs)
    \/ PutSkillFrom(SkillListPutInputs)
    \/ DeleteSkillFrom({"admin"} \X (1..MaxSkillIds))
    \/ PostSkillsBulkFrom(SkillListBulkInputs)

SpecSkillsList == Init /\ [][NextSkillsList]_vars

\* C8: whatever skill requests came before, the public GET /skills, with or
\* without a category filter, returns no skill whose isVisible is not true,
\* and GET /skills/admin/all called by an admin returns every stored skill,
\* hidden ones included.
C8_PublicListHidesAdminListShows ==
    /\ resp.route = "GET /skills" =>
          \A i \in 1..Len(resp.body) :
              resp.body[i] \in Range(skills) /\ resp.body[i].isVisible = TRUE
    /\ (resp.route = "GET /skills/admin/all" /\ resp.token = "admin") =>
          /\ resp.status = 200
          /\ Range(resp.body) = Range(skills)
          /\ Len(resp.body) = Len(skills)

\* The public list answered with some skills while a hidden skill of the
\* same category as a returned one is stored.
C8_Witness ==
    /\ resp.route = "GET /skills"
    /\ resp.body # <<>>
    /\ \E s \in Range(skills) :
          s.isVisible = FALSE /\ s.category = resp.body[1].category

----------------------------------------------------------------------------
(* The featured list, with more featured projects than its cap *)

TitlePool == <<"t1", "t2", "t3", "t4", "t5", "t6", "t7", "t8", "t9", "t10">>

\* Bodies with a fresh title each: published or not, featured or not, the
\* priority alternating with the creation index.
FeaturedBodies ==
    {ProjectBody(TitlePool[nextId], SlugA, "web", f[1], f[2], nextId % 2) :
        f \in {<<TRUE, TRUE>>, <<FALSE, TRUE>>, <<TRUE, FALSE>>}}

PostFeaturedProject ==
    \E body \in FeaturedBodies :
        /\ nextId <= MaxFeaturedIds
        /\ ApplyProject(ProjectsPost(projects, nextId, "admin", body))

NextFeatured ==
    \/ PostFeaturedProject
    \/ GetFeatured

SpecFeatured == Init /\ [][NextFeatured]_vars

\* C9: GET /projects/featured returns at most 6 items, each of them published
\* and featured; an unpublished project is never among them, featured or not.
C9_FeaturedCappedAndPublished ==
    resp.route = "GET /projects/featured" =>
        /\ Len(resp.body) <= 6
        /\ \A i \in 1..Len(resp.body) :
              /\ resp.body[i] \in Range(projects)
              /\ resp.body[i].isPublished = TRUE
              /\ resp.body[i].isFeatured = TRUE

\* Seven published featured projects and an unpublished featured one are
\* stored, and the featured list answered with six.
C9_Witness ==
    /\ resp.route = "GET /projects/featured"
    /\ Len(resp.body) = 6
    /\ Cardinality({p \in Range(projects) : p.isPublished /\ p.isFeatured}) > 6
    /\ \E p \in Range(projects) : ~p.isPublished /\ p.isFeatured

----------------------------------------------------------------------------
(* Optional fields of a skill on create and on update *)

\* A field that is not sent carries a value here that is neither the schema
\* default nor, on update, the stored one.
FieldPostInputs ==
    {"admin"} \X
    {SkillBody({"name", "category"} \cup h, <<"c">>, c, FALSE, 5) :
        h \in SUBSET {"isVisible", "order"}, c \in {CatFrontend, CatBackend}}

FieldPutInputs ==
    {"admin"} \X (1..MaxSkillIds) \X
    {SkillBody({"order"}, <<>>, <<>>, TRUE, 7),
     SkillBody({"isVisible"}, <<>>, <<>>, TRUE, 3),
     SkillBody({"isVisible"}, <<>>, <<>>, FALSE, 3),
     SkillBody({"name"}, <<"d">>, <<>>, FALSE, 3),
     SkillBody({}, <<>>, <<>>, FALSE, 3)}

NextFields ==
    \/ PostSkillFrom(FieldPostInputs)
    \/ PutSkillFrom(FieldPutInputs)
    \/ DeleteSkillFrom({"admin"} \X (1..MaxSkillIds))

SpecFields == Init /\ [][NextFields]_vars

\* C18: a skill created without an optional field holds the schema default
\* of that field, and with it the value sent; a skill updated without a
\* field keeps the value stored before, and with it takes the value sent.
C18_AbsentFieldsKeepDefaultOrStored ==
    [][ /\ (resp'.route = "POST /skills" /\ resp'.status = 201) =>
            \A in \in FieldPostInputs :
                resp' = SkillsPost(skills, nextId, in[1], in[2]).resp =>
                    LET new == skills'[Len(skills')]
                    IN /\ new = resp'.body[1]
                       /\ new.isVisible = IF "isVisible" \in in[2].has
                                          THEN in[2].isVisible ELSE DefaultIsVisible
                       /\ new.order = IF "order" \in in[2].has
                                      THEN in[2].order ELSE DefaultOrder
        /\ (resp'.route = "PUT /skills/:id" /\ resp'.status = 200) =>
            \A in \in FieldPutInputs :
                ( /\ resp' = SkillsPut(skills, nextId, in[1], in[2], in[3]).resp
                  /\ skills' = SkillsPut(skills, nextId, in[1], in[2], in[3]).skills ) =>
                    \E i \in 1..Len(skills) :
                        /\ skills[i].id = in[2]
                        /\ skills'[i] = resp'.body[1]
                        /\ skills'[i].name =
                             IF "name" \in in[3].has THEN in[3].name ELSE skills[i].name
                        /\ skills'[i].category = skills[i].category
                        /\ skills'[i].isVisible =
                             IF "isVisible" \in in[3].has THEN in[3].isVisible
                             ELSE skills[i].isVisible
                        /\ skills'[i].order =
                             IF "order" \in in[3].has THEN in[3].order ELSE skills[i].order
      ]_vars

\* An update that sent only order left a skill hidden that had been created
\* hidden.
C18_Witness ==
    /\ resp.route = "PUT /skills/:id"
    /\ resp.status = 200
    /\ resp.body[1].order = 7
    /\ resp.body[1].isVisible = FALSE

----------------------------------------------------------------------------
(* Authentication and authorization of the admin-only routes *)

AdminRoutes ==
    {"POST /projects", "PUT /projects/:id", "DELETE /projects/:id",
     "GET /projects/admin/all", "GET /skills/admin/all", "POST /skills",
     "PUT /skills/:id", "DELETE /skills/:id", "POST /skills/bulk"}

AuthProjectBodies ==
    {ProjectBody("t1", SlugA, "web", TRUE, TRUE, 1),
     ProjectBody("t2", SlugB, "web", FALSE, FALSE, 0),
     ProjectBody("", SlugA, "web", TRUE, TRUE, 1)}

AuthSkillBodies ==
    {SkillBody({"name", "category"}, <<"c">>, CatFrontend, TRUE, 0),
     SkillBody({"name", "category"}, <<"d">>, CatFrontend, TRUE, 0),
     SkillBody({"name", "category"}, <<" ">>, CatFrontend, TRUE, 0)}

AuthIds == 1..MaxProjectIds

NextAuth ==
    \/ PostProjectFrom(Tokens \X AuthProjectBodies)
    \/ PutProjectFrom(Tokens \X AuthIds \X AuthProjectBodies)
    \/ DeleteProjectFrom(Tokens \X AuthIds)
    \/ GetProjectsAdminAll
    \/ GetSkillsAdminAll
    \/ PostSkillFrom(Tokens \X AuthSkillBodies)
    \/ PutSkillFrom(Tokens \X AuthIds \X AuthSkillBodies)
    \/ DeleteSkillFrom(Tokens \X AuthIds)
    \/ PostSkillsBulkFrom(Tokens \X {TRUE} \X {<<b>> : b \in AuthSkillBodies})

SpecAuth == Init /\ [][NextAuth]_vars

\* C2: every admin-only route called with a valid token whose role is not
\* admin answers 403 and leaves the store unchanged.
C2_NonAdminForbidden ==
    [][(resp'.route \in AdminRoutes /\ resp'.token = "user") =>
          /\ resp'.status = 403
          /\ projects' = projects
          /\ skills' = skills]_vars

\* C3: every admin-only route called without an Authorization header answers
\* 401 from the auth middleware, before any validator or handler runs, and
\* the store is left as it was.
C3_NoTokenUnauthenticated ==
    [][(resp'.route \in AdminRoutes /\ resp'.token = "none") =>
          /\ resp'.status = 401
          /\ resp'.ran = <<"auth">>
          /\ projects' = projects
          /\ skills' = skills]_vars

\* A request without a token, whose body breaks a field rule, was answered
\* 401 while a project and a skill are stored.
C3_Witness ==
    /\ resp.route \in AdminRoutes
    /\ resp.token = "none"
    /\ resp.status = 401
    /\ projects # <<>>
    /\ skills # <<>>

----------------------------------------------------------------------------
(* Field validation of the create and update requests *)

ValidationProjectBodies ==
    {ProjectBody("t1", SlugA, "web", TRUE, TRUE, 1),
     ProjectBody("", SlugA, "web", TRUE, TRUE, 1)}

ValidationSkillBodies ==
    {SkillBody({"name", "category"}, <<"c">>, CatFrontend, TRUE, 0),
     SkillBody({"name", "category"}, <<" ">>, <<"x">>, TRUE, 0),
     SkillBody({"name", "category"}, <<"c">>, <<"x">>, TRUE, 0),
     SkillBody({"name"}, <<"d">>, <<>>, TRUE, 0),
     SkillBody({}, <<>>, <<>>, TRUE, 0)}

ValidationTokens == {"admin", "user"}

ValidationProjectPosts == ValidationTokens \X ValidationProjectBodies
ValidationProjectPuts == ValidationTokens \X ProjectIdInputs \X ValidationProjectBodies
ValidationSkillPosts == ValidationTokens \X ValidationSkillBodies
ValidationSkillPuts == ValidationTokens \X SkillIdInputs \X ValidationSkillBodies

NextValidation ==
    \/ PostProjectFrom(ValidationProjectPosts)
    \/ PutProjectFrom(ValidationProjectPuts)
    \/ PostSkillFrom(ValidationSkillPosts)
    \/ PutSkillFrom(ValidationSkillPuts)

SpecValidation == Init /\ [][NextValidation]_vars

\* What a request that broke the rules errs has to be answered and to leave.
RejectedWith(errs, r, projectsAfter, skillsAfter) ==
    /\ r.status = 400
    /\ r.errors = errs
    /\ r.body = <<>>
    /\ projectsAfter = projects
    /\ skillsAfter = skills

\* C14: a POST or PUT on /projects or /skills that breaks one or more field
\* rules is answered 400 with every broken rule listed, the rest of the
\* handler does not run and nothing is written to the store.
C14_ValidationFailureListsAllWritesNothing ==
    [][resp'.route \in {"POST /projects", "PUT /projects/:id",
                        "POST /skills", "PUT /skills/:id"} =>
        /\ \A in \in ValidationProjectPosts :
              ( /\ ProjectErrors(in[2]) # {}
                /\ resp' = ProjectsPost(projects, nextId, in[1], in[2]).resp )
              => RejectedWith(ProjectErrors(in[2]), resp', projects', skills')
        /\ \A in \in ValidationProjectPuts :
              ( /\ IdErrors(in[2]) \cup ProjectErrors(in[3]) # {}
                /\ resp' = ProjectsPut(projects, nextId, in[1], in[2], in[3]).resp )
              => RejectedWith(IdErrors(in[2]) \cup ProjectErrors(in[3]),
                              resp', projects', skills')
        /\ \A in \in ValidationSkillPosts :
              ( /\ SkillPostErrors(in[2]) # {}
                /\ resp' = SkillsPost(skills, nextId, in[1], in[2]).resp )
              => RejectedWith(SkillPostErrors(in[2]), resp', projects', skills')
        /\ \A in \in ValidationSkillPuts :
              ( /\ SkillPutErrors(in[3]) # {}
                /\ resp' = SkillsPut(skills, nextId, in[1], in[2], in[3]).resp )
              => RejectedWith(SkillPutErrors(in[3]), resp', projects', skills')]_vars

\* A request that broke two rules at once was answered with both while a
\* project and a skill are stored.
C14_Witness ==
    /\ resp.status = 400
    /\ Cardinality(resp.errors) = 2
    /\ projects # <<>>
    /\ skills # <<>>

\* C15: every error response carries a message field, and a validation
\* failure carries its errors array in addition to the message.
C15_ErrorBodiesCarryMessage ==
    resp.status >= 400 => resp.message # ""

----------------------------------------------------------------------------
(* Concurrent creates: a POST handler is suspended at each await, and the   *)
(* requests in flight interleave there.                                    *)

RaceSkillBodies ==
    {SkillBody({"name", "category"}, n, CatFrontend, TRUE, 0) : n \in {<<"c">>, <<"C">>}}

RaceProjectBodies ==
    {ProjectBody(t, SlugA, "web", TRUE, FALSE, 0) : t \in {"t1", "t2"}}

Busy == {slot \in 1..MaxInflight : pending[slot].kind # "idle"}

\* POST /skills up to the await of skill.save()
BeginPostSkill ==
    \E slot \in 1..MaxInflight, token \in {"admin", "user"}, body \in RaceSkillBodies :
        LET pre == SkillsPostPre(skills, token, body)
        IN /\ pending[slot].kind = "idle"
           /\ nextId + Cardinality(Busy) <= MaxSkillIds
           /\ IF pre.done
              THEN resp' = pre.resp /\ UNCHANGED pending
              ELSE /\ pending' = [pending EXCEPT ![slot] =
                         [kind |-> "skill", token |-> token, ran |-> pre.ran,
                          data |-> pre.data]]
                   /\ UNCHANGED resp
           /\ UNCHANGED <<projects, skills, nextId, browser, pages>>

\* skill.save() and the response of POST /skills
FinishPostSkill ==
    \E slot \in 1..MaxInflight :
        /\ pending[slot].kind = "skill"
        /\ LET o == SkillsPostSave(skills, nextId, pending[slot].token,
                                   pending[slot].data, pending[slot].ran)
           IN resp' = o.resp /\ skills' = o.skills /\ nextId' = o.nextId
        /\ pending' = [pending EXCEPT ![slot] = Idle]
        /\ UNCHANGED <<projects, browser, pages>>

\* POST /projects up to the await of project.save()
BeginPostProject ==
    \E slot \in 1..MaxInflight, token \in {"admin", "none"}, body \in RaceProjectBodies :
        LET pre == ProjectsPostPre(token, body)
        IN /\ pending[slot].kind = "idle"
           /\ nextId + Cardinality(Busy) <= MaxProjectIds
           /\ IF pre.done
              THEN resp' = pre.resp /\ UNCHANGED pending
              ELSE /\ pending' = [pending EXCEPT ![slot] =
                         [kind |-> "project", token |-> token, ran |-> pre.ran,
                          data |-> pre.data]]
                   /\ UNCHANGED resp
           /\ UNCHANGED <<projects, skills, nextId, browser, pages>>

\* project.save() and the response of POST /projects
FinishPostProject ==
    \E slot \in 1..MaxInflight :
        /\ pending[slot].kind = "project"
        /\ LET o == ProjectsPostSave(projects, nextId, pending[slot].token,
                                     pending[slot].data, pending[slot].ran)
           IN resp' = o.resp /\ projects' = o.projects /\ nextId' = o.nextId
        /\ pending' = [pending EXCEPT ![slot] = Idle]
        /\ UNCHANGED <<skills, browser, pages>>

NextRace ==
    \/ BeginPostSkill
    \/ FinishPostSkill
    \/ BeginPostProject
    \/ FinishPostProject

SpecRace == Init /\ [][NextRace]_vars

\* The save of the request in slot is rejected by the unique index.
IndexRejects(slot) ==
    \/ /\ pending[slot].kind = "skill"
       /\ DupKey(skills, NewSkill(nextId, pending[slot].data))
    \/ /\ pending[slot].kind = "project"
       /\ DupTitle(projects, NewProject(nextId, pending[slot].data))

\* C5: when concurrent creates with the same uniqueness key have passed the
\* handler's pre-check, the request whose insert the unique index rejects is
\* answered with the Conflict error, not with the generic server error, and
\* at most one record with that key is stored.
C5_RaceLoserGetsConflict ==
    [][/\ \A slot \in 1..MaxInflight :
            (pending[slot].kind # "idle" /\ pending'[slot].kind = "idle"
             /\ IndexRejects(slot))
            => /\ resp'.status = 400
               /\ resp'.message \in
                    {"Skill with this name already exists in this category",
                     "Project with this title already exists"}
       /\ \A i, j \in 1..Len(skills') : i # j => ~SameKey(skills'[i], skills'[j])
       /\ \A i, j \in 1..Len(projects') :
            i # j => projects'[i].title # projects'[j].title]_vars

----------------------------------------------------------------------------
(* Contact messages: the collection on the server and the AdminContact     *)
(* page (client/src/pages/admin/Contact.js) that shows and updates them.   *)

MaxContacts == 1
MaxCalls == 1

ContactStatuses == {"new", "read", "replied", "archived"}

\* POST /contact: a submission is stored with status new.
NewContact(id) == [id |-> id, status |-> "new", isRead |-> FALSE]

\* PATCH /contact/:id on the server: the read flag follows the status.
PatchContact(store, id, status) ==
    [i \in 1..Len(store) |->
        IF store[i].id = id
        THEN [store[i] EXCEPT !.status = status, !.isRead = (status # "new")]
        ELSE store[i]]

\* The _id of an object that has none.
NoContactId == 0

\* A local update that copies the status and leaves the flag alone.
WithStatusOnly(contact, newStatus) == [contact EXCEPT !.status = newStatus]

\* { ...contact, status: newStatus, isRead: newStatus !== 'new' }
WithStatus(contact, newStatus) ==
    [contact EXCEPT !.status = newStatus, !.isRead = (newStatus # "new")]

\* setSelectedContact(prev => ({ ...prev, status, isRead })): spreading a
\* null prev gives an object with these two fields only.
SelectedWithStatus(prev, newStatus) ==
    IF prev = <<>>
    THEN <<WithStatus([id |-> NoContactId, status |-> "", isRead |-> FALSE], newStatus)>>
    ELSE <<WithStatus(prev[1], newStatus)>>

\* The continuation of handleStatusChange after the awaited call returned:
\* call holds contactId, newStatus and, of the selectedContact of the render
\* that started it, the _id (the one field the continuation reads).
AfterStatusChange(view, call) ==
    [view EXCEPT
        !.contacts = [i \in 1..Len(view.contacts) |->
                        IF view.contacts[i].id = call.contactId
                        THEN WithStatus(view.contacts[i], call.newStatus)
                        ELSE view.contacts[i]],
        !.selectedContact =
            IF call.selectedId # <<>> /\ call.selectedId[1] = call.contactId
            THEN SelectedWithStatus(view.selectedContact, call.newStatus)
            ELSE view.selectedContact]

\* A visitor submits the contact form.
SubmitContact ==
    /\ Len(contacts) < MaxContacts
    /\ contacts' = Append(contacts, NewContact(Len(contacts) + 1))
    /\ UNCHANGED <<projects, skills, nextId, resp, pending, pages, adminContact, storage, sent>>

\* fetchContacts: the page replaces its list by the server's.
FetchContacts ==
    /\ adminContact' = [adminContact EXCEPT !.contacts = contacts]
    /\ UNCHANGED <<projects, skills, nextId, resp, pending, pages, contacts, storage, sent>>

\* A click on a list entry, or on the close button of the detail pane.
SelectContact ==
    /\ \/ \E i \in 1..Len(adminContact.contacts) :
            adminContact' =
                [adminContact EXCEPT !.selectedContact = <<adminContact.contacts[i]>>]
       \/ /\ adminContact.selectedContact # <<>>
          /\ adminContact' = [adminContact EXCEPT !.selectedContact = <<>>]
    /\ UNCHANGED <<projects, skills, nextId, resp, pending, pages, contacts, storage, sent>>

\* handleStatusChange up to its await: the status select or the reply link
\* of the detail pane starts a PATCH for the selected contact, with at most
\* limit calls in flight.  served tells what the server did with the call
\* so far: "no" before it handled it, then "ok" or "failed".
BeginStatusChangeUpTo(limit) ==
    /\ adminContact.selectedContact # <<>>
    /\ Cardinality(adminContact.calls) < limit
    /\ \E newStatus \in ContactStatuses :
          \* the select changes to another option than the one it shows;
          \* the reply link asks for replied whatever is shown
          /\ newStatus # adminContact.selectedContact[1].status \/ newStatus = "replied"
          /\ adminContact' =
            [adminContact EXCEPT !.calls =
                @ \cup {[contactId |-> adminContact.selectedContact[1].id,
                         newStatus |-> newStatus,
                         selectedId |-> <<adminContact.selectedContact[1].id>>,
                         served |-> "no"]}]
    /\ UNCHANGED <<projects, skills, nextId, resp, pending, pages, contacts, storage, sent>>

BeginStatusChange == BeginStatusChangeUpTo(MaxCalls)

\* The PATCH is handled and handleStatusChange resumes: the server updates
\* the message and the page updates its copies, or the call fails (before
\* or after the server acted) and the page leaves its state alone.
FinishStatusChange ==
    \E call \in adminContact.calls, served \in BOOLEAN, answered \in BOOLEAN :
        LET known == \E c \in Range(contacts) : c.id = call.contactId
            rest == [adminContact EXCEPT !.calls = @ \ {call}]
        IN /\ answered => served /\ known
           /\ contacts' = IF served /\ known
                          THEN PatchContact(contacts, call.contactId, call.newStatus)
                          ELSE contacts
           /\ adminContact' = IF answered THEN AfterStatusChange(rest, call) ELSE rest
           /\ UNCHANGED <<projects, skills, nextId, resp, pending, pages, storage, sent>>

NextContacts ==
    \/ SubmitContact
    \/ FetchContacts
    \/ SelectContact
    \/ BeginStatusChange
    \/ FinishStatusChange

SpecContacts == Init /\ [][NextContacts]_vars

FlagFollowsStatus(c) == c.isRead = (c.status # "new")

\* C19: in every reachable state the read flag of each contact message, on
\* the server and in the admin page's list and detail pane, is true exactly
\* when its status is not new; no status change leaves the flag behind.
C19_ReadFlagDerivedFromStatus ==
    /\ \A c \in Range(contacts) : FlagFollowsStatus(c)
    /\ \A c \in Range(adminContact.contacts) : FlagFollowsStatus(c)
    /\ \A c \in Range(adminContact.selectedContact) : FlagFollowsStatus(c)

\* A message was moved from new to replied: the server and the page's list
\* show it replied and read, while the detail pane, closed during the call,
\* holds only the two fields the continuation wrote.
C19_Witness ==
    /\ \E c \in Range(contacts) : c.status = "replied" /\ c.isRead
    /\ \E c \in Range(adminContact.contacts) : c.status = "replied" /\ c.isRead
    /\ adminContact.selectedContact # <<>>
    /\ adminContact.selectedContact[1].id = NoContactId
    /\ adminContact.selectedContact[1].status = "replied"

----------------------------------------------------------------------------
(* The API client (ApiService) and the token the browser keeps for it *)

\* A set of headers is a set of <<name, value>> pairs with distinct names;
\* spreading b over a lets b's value win for a name both carry.
Spread(a, b) == {h \in a : \A g \in b : g[1] # h[1]} \cup b

ContentTypeJson == <<"Content-Type", "application/json">>

\* `Bearer ${token}`
Bearer(token) == <<"Authorization", <<"Bearer", token>>>>

\* ApiService.request(endpoint, options) up to the call of fetch: the
\* configuration handed to fetch.  has names the properties options carries.
RequestConfig(store, endpoint, options) ==
    LET headers ==
            Spread(Spread({ContentTypeJson},
                          IF store # <<>> THEN {Bearer(store[1])} ELSE {}),
                   IF "headers" \in options.has THEN options.headers ELSE {})
    IN [endpoint |-> endpoint,
        method |-> IF "method" \in options.has THEN options.method ELSE "GET",
        headers |-> IF "headers" \in options.has THEN options.headers ELSE headers,
        body |-> IF "body" \in options.has THEN <<options.body>> ELSE <<>>,
        options |-> options]

TokenInputs == {"t1", "t2"}

HeaderInputs ==
    {{}, {<<"X-Requested-With", "fetch">>}, {<<"Authorization", <<"Basic", "t0">>>>},
     {<<"Content-Type", "multipart/form-data">>}}

\* A property outside has is not part of options; its value is a
\* placeholder.
OptionInputs ==
    {[has |-> h, method |-> "POST", headers |-> IF "headers" \in h THEN hs ELSE {},
      body |-> "data"] :
        h \in SUBSET {"method", "headers", "body"}, hs \in HeaderInputs}

EndpointInputs == {"/skills", "/projects", "/contact"}

\* The user the server answers for a token.
UserOf(token) == [session |-> token]

\* api.login(credentials): request('/auth/login', { method: 'POST', body })
LoginOptions ==
    [has |-> {"method", "body"}, method |-> "POST", headers |-> {}, body |-> "credentials"]

\* api.getCurrentUser(): request('/auth/me')
NoOptions == [has |-> {}, method |-> "", headers |-> {}, body |-> ""]

\* AuthContext.login: the credentials are posted through the client and the
\* token of the answer is stored, unless the call throws.
Login ==
    /\ sent' = <<RequestConfig(storage, "/auth/login", LoginOptions)>>
    /\ \/ \E token \in TokenInputs :
             /\ storage' = <<token>>
             /\ provider' = [provider EXCEPT !.user = <<UserOf(token)>>]
       \/ UNCHANGED <<storage, provider>>
    /\ UNCHANGED <<projects, skills, nextId, resp, pending, views, contacts, adminContact>>

\* AuthContext.logout
Logout ==
    /\ storage' = <<>>
    /\ provider' = [provider EXCEPT !.user = <<>>]
    /\ UNCHANGED <<projects, skills, nextId, resp, pending, views, contacts, adminContact, sent>>

\* AuthContext checkAuth: with a token stored the current user is fetched,
\* and a failure logs out.
CheckAuth ==
    /\ storage # <<>>
    /\ sent' = <<RequestConfig(storage, "/auth/me", NoOptions)>>
    /\ \/ /\ provider' = [provider EXCEPT !.user = <<UserOf(storage[1])>>,
                                           !.loading = FALSE]
          /\ UNCHANGED storage
       \/ /\ storage' = <<>>
          /\ provider' = [provider EXCEPT !.user = <<>>, !.loading = FALSE]
    /\ UNCHANGED <<projects, skills, nextId, resp, pending, views, contacts, adminContact>>

\* Any other call of request(endpoint, options).
Request ==
    /\ \E endpoint \in EndpointInputs, options \in OptionInputs :
          sent' = <<RequestConfig(storage, endpoint, options)>>
    /\ UNCHANGED <<projects, skills, nextId, resp, pending, pages, contacts, adminContact, storage>>

NextClient ==
    \/ Login
    \/ Logout
    \/ CheckAuth
    \/ Request

SpecClient == Init /\ [][NextClient]_vars

\* C20: every request sent through request(endpoint, options) while a token
\* is stored carries Authorization: Bearer <token> and Content-Type:
\* application/json, whatever options holds, its own headers included; with
\* no token stored the client adds no Authorization header.
C20_RequestsCarryBearerToken ==
    [][(sent' # sent \/ storage' = storage) =>
        /\ sent' # <<>>
        /\ IF storage # <<>>
           THEN /\ Bearer(storage[1]) \in sent'[1].headers
                /\ ContentTypeJson \in sent'[1].headers
           ELSE \A h \in sent'[1].headers :
                    h[1] = "Authorization" => h \in sent'[1].options.headers]_vars

----------------------------------------------------------------------------
(* Admin list of projects *)

\* C21: GET /projects/admin/all called by an admin returns every stored
\* project, published or not: no publication filter and no page size cuts
\* the list.
C21_AdminAllReturnsEveryProject ==
    (resp.route = "GET /projects/admin/all" /\ resp.token = "admin") =>
        /\ resp.status = 200
        /\ Range(resp.body) = Range(projects)
        /\ Len(resp.body) = Len(projects)
        /\ resp.pagination = NoPagination

\* An admin listed a store that holds a published and an unpublished
\* project.
C21_Witness ==
    /\ resp.route = "GET /projects/admin/all"
    /\ resp.token = "admin"
    /\ \E p, q \in Range(projects) : p.isPublished = TRUE /\ q.isPublished = FALSE
    /\ Len(resp.body) = MaxProjectIds

----------------------------------------------------------------------------
(* The public skill endpoints *)

SkillsGetOneChain == <<>>
SkillsCategoriesChain == <<>>

\* GET /skills/:id
SkillsGetOne(store, token, id) ==
    LET route == "GET /skills/:id"
        m == RunChain(SkillsGetOneChain, token, {}, <<>>)
        found == FindSkill(store, id)
    IN IF id = BadId
       THEN Reply(route, token, m.ran, 404, "Skill not found with provided ID", <<>>)
       ELSE IF found = {} THEN Reply(route, token, m.ran, 404, "Skill not found", <<>>)
       ELSE Reply(route, token, m.ran, 200, "", <<CHOOSE s \in found : TRUE>>)

\* Skill.distinct('category')
DistinctCategories(store) == {s.category : s \in Range(store)}

\* GET /skills/categories; listed is the order in which the store hands over
\* the distinct values.
SkillsCategories(store, token, listed) ==
    Reply("GET /skills/categories", token,
          RunChain(SkillsCategoriesChain, token, {}, <<>>).ran, 200, "", listed)

GetSkill ==
    \E token \in {"none", "user"}, id \in SkillIdInputs :
        ApplySkill(SkillOutcome(SkillsGetOne(skills, token, id), skills, nextId))

GetSkillCategories ==
    \E token \in {"none", "user"} :
        LET cats == DistinctCategories(skills)
        IN \E listed \in [1..Cardinality(cats) -> cats] :
              /\ Range(listed) = cats
              /\ ApplySkill(SkillOutcome(SkillsCategories(skills, token, listed),
                                         skills, nextId))

NextSkillsPublic ==
    \/ GetSkills
    \/ GetSkill
    \/ GetSkillCategories
    \/ PostSkillFrom(SkillListPostInputs)
    \/ PutSkillFrom(SkillListPutInputs)
    \/ DeleteSkillFrom({"admin"} \X (1..MaxSkillIds))

SpecSkillsPublic == Init /\ [][NextSkillsPublic]_vars

\* C22: no skill document that a public skills endpoint returns to a caller
\* without a token is hidden: neither the list of GET /skills nor the skill
\* of GET /skills/:id has isVisible false.
C22_PublicEndpointsHideHiddenSkills ==
    (resp.route \in {"GET /skills", "GET /skills/:id"} /\ resp.token = "none") =>
        \A i \in 1..Len(resp.body) : resp.body[i].isVisible = TRUE

----------------------------------------------------------------------------
(* AuthProvider, call by call *)

MaxLogins == 2

\* checkAuth up to its await: without a token only loading is cleared, with
\* one getCurrentUser is sent with it.
BeginCheckAuth ==
    /\ provider.check = "start"
    /\ IF storage = <<>>
       THEN /\ provider' = [provider EXCEPT !.loading = FALSE, !.check = "done"]
            /\ UNCHANGED sent
       ELSE /\ provider' = [provider EXCEPT !.check = "waiting", !.checkToken = storage]
            /\ sent' = <<RequestConfig(storage, "/auth/me", NoOptions)>>
    /\ UNCHANGED <<projects, skills, nextId, resp, pending, views, contacts, adminContact, storage>>

\* getCurrentUser resolved: setUser(userData.user), then finally.
CheckAuthResolved ==
    /\ provider.check = "waiting"
    /\ provider' = [provider EXCEPT !.user = <<UserOf(provider.checkToken[1])>>,
                                    !.loading = FALSE, !.check = "done",
                                    !.checkToken = <<>>]
    /\ UNCHANGED <<projects, skills, nextId, resp, pending, browser, views>>

\* getCurrentUser threw: catch calls logout(), then finally.
CheckAuthRejected ==
    /\ provider.check = "waiting"
    /\ storage' = <<>>
    /\ provider' = [provider EXCEPT !.user = <<>>, !.loading = FALSE, !.check = "done",
                                    !.checkToken = <<>>]
    /\ UNCHANGED <<projects, skills, nextId, resp, pending, views, contacts, adminContact, sent>>

\* The mount effect has run: only then the user can act on the page.
Mounted == provider.check # "start"

\* login up to its await: api.login is sent.
BeginLogin ==
    /\ Mounted
    /\ provider.logins < MaxLogins
    /\ provider' = [provider EXCEPT !.logins = @ + 1]
    /\ sent' = <<RequestConfig(storage, "/auth/login", LoginOptions)>>
    /\ UNCHANGED <<projects, skills, nextId, resp, pending, views, contacts, adminContact, storage>>

\* api.login resolved with a token and its user, or threw.
FinishLogin ==
    /\ provider.logins > 0
    /\ \/ \E token \in TokenInputs :
             /\ storage' = <<token>>
             /\ provider' = [provider EXCEPT !.user = <<UserOf(token)>>, !.logins = @ - 1]
       \/ /\ provider' = [provider EXCEPT !.logins = @ - 1]
          /\ UNCHANGED storage
    /\ UNCHANGED <<projects, skills, nextId, resp, pending, views, contacts, adminContact, sent>>

\* The logout button of AdminLayout, which PrivateRoute renders for a user.
ClickLogout ==
    /\ Mounted
    /\ provider.user # <<>>
    /\ Logout

\* The page is loaded anew: the provider starts over, its calls in flight
\* are dropped and localStorage stays.
Reload ==
    /\ provider' = ProviderInit
    /\ UNCHANGED <<projects, skills, nextId, resp, pending, browser, views>>

NextProvider ==
    \/ BeginCheckAuth
    \/ CheckAuthResolved
    \/ CheckAuthRejected
    \/ BeginLogin
    \/ FinishLogin
    \/ ClickLogout
    \/ Reload

SpecProvider == Init /\ [][NextProvider]_vars

\* C23: in every reachable state of AuthProvider, whatever the order of the
\* steps of checkAuth, login and logout, a user that is not null comes with
\* a token in local storage.
C23_UserImpliesStoredToken ==
    provider.user # <<>> => storage # <<>>

\* C24: when the getCurrentUser request of checkAuth fails after a login
\* has stored another token than the one checkAuth sent, and that login's
\* user, the token and the user are still there afterwards.
C24_CheckAuthFailureKeepsLogin ==
    [][(/\ CheckAuthRejected
        /\ storage # <<>>
        /\ storage # provider.checkToken
        /\ provider.user = <<UserOf(storage[1])>>)
       => (storage' = storage /\ provider'.user = provider.user)]_vars

----------------------------------------------------------------------------
(* Several status updates of the AdminContact page in flight *)

MaxUpdates == 2

\* The server handles one of the PATCH requests in flight: it stores the
\* status, or rejects the request and stores nothing.
ServeStatusChange ==
    \E call \in adminContact.calls, accepted \in BOOLEAN :
        LET known == \E c \in Range(contacts) : c.id = call.contactId
            ok == accepted /\ known
        IN /\ call.served = "no"
           /\ contacts' = IF ok THEN PatchContact(contacts, call.contactId, call.newStatus)
                          ELSE contacts
           /\ adminContact' =
                [adminContact EXCEPT !.calls =
                    (@ \ {call}) \cup {[call EXCEPT !.served = IF ok THEN "ok" ELSE "failed"]}]
           /\ UNCHANGED <<projects, skills, nextId, resp, pending, pages, storage, sent>>

\* The response to a handled PATCH arrives and handleStatusChange resumes:
\* after the await, or in its catch, which leaves the state alone.
ReceiveStatusChange ==
    \E call \in adminContact.calls :
        LET rest == [adminContact EXCEPT !.calls = @ \ {call}]
        IN /\ call.served # "no"
           /\ adminContact' = IF call.served = "ok" THEN AfterStatusChange(rest, call)
                              ELSE rest
           /\ UNCHANGED <<projects, skills, nextId, resp, pending, pages, contacts,
                          storage, sent>>

NextContactCalls ==
    \/ SubmitContact
    \/ FetchContacts
    \/ SelectContact
    \/ BeginStatusChangeUpTo(MaxUpdates)
    \/ ServeStatusChange
    \/ ReceiveStatusChange

SpecContactCalls == Init /\ [][NextContactCalls]_vars

\* The page's copy shows what the server stores for the same message.
ShownAsStored(c) ==
    \A s \in Range(contacts) :
        s.id = c.id => (c.status = s.status /\ c.isRead = s.isRead)

\* C25: once no status update of the admin contact page is in flight, each
\* message of the page's list and the message of its detail pane show the
\* status and the read flag the server stores for it, in whatever order the
\* responses to several updates arrived.
C25_SettledPageShowsStoredStatus ==
    adminContact.calls = {} =>
        /\ \A c \in Range(adminContact.contacts) : ShownAsStored(c)
        /\ \A c \in Range(adminContact.selectedContact) : ShownAsStored(c)

----------------------------------------------------------------------------
(* GET /projects interleaved with admin writes *)

ListRaceQueryInputs ==
    {ProjectQuery(h, 1, "true", 1) : h \in {{}, {"limit"}, {"category"}}}

ListRaceBodies ==
    {ProjectBody("t1", SlugA, "web", TRUE, FALSE, 0),
     ProjectBody("t2", SlugB, "mobile", FALSE, FALSE, 0)}

\* GET /projects up to the await of countDocuments: find() has read the
\* collection, which the slot keeps as read.
BeginGetProjects ==
    \E slot \in 1..MaxInflight, q \in ListRaceQueryInputs :
        /\ pending[slot].kind = "idle"
        /\ pending' = [pending EXCEPT ![slot] =
              [kind |-> "list", token |-> "none",
               ran |-> RunChain(ProjectsListChain, "none", {}, <<>>).ran,
               data |-> [q |-> q, store |-> projects]]]
        /\ UNCHANGED <<projects, skills, nextId, resp, browser, pages>>

\* countDocuments() and the response of GET /projects
FinishGetProjects ==
    \E slot \in 1..MaxInflight :
        /\ pending[slot].kind = "list"
        /\ resp' = ProjectsListAcross(pending[slot].data.store, projects,
                                      pending[slot].token, pending[slot].data.q)
        /\ pending' = [pending EXCEPT ![slot] = Idle]
        /\ UNCHANGED <<projects, skills, nextId, browser, pages>>

NextListRace ==
    \/ BeginGetProjects
    \/ FinishGetProjects
    \/ PostProjectFrom({"admin"} \X ListRaceBodies)
    \/ PutProjectFrom({"admin"} \X (1..MaxProjectIds) \X ListRaceBodies)
    \/ DeleteProjectFrom({"admin"} \X (1..MaxProjectIds))

SpecListRace == Init /\ [][NextListRace]_vars

\* C26: the total and the pages that GET /projects answers are those of the
\* published, filter-matching projects of the collection its page of items
\* was read from, whatever admin write was applied between its two reads.
C26_TotalCountsTheStoreThatWasRead ==
    [][\A slot \in 1..MaxInflight :
          (pending[slot].kind = "list" /\ pending'[slot].kind = "idle") =>
              LET read == Eligible(pending[slot].data.store, pending[slot].data.q)
                  limit == resp'.pagination.limit
              IN /\ resp'.pagination.total = Cardinality(read)
                 /\ resp'.pagination.pages = CeilDiv(Cardinality(read), limit)]_vars

----------------------------------------------------------------------------
(* The AdminSkills page *)

\* JSON.stringify(skillData): every field of the form object is sent.
FormBody(skillData) ==
    SkillBody({"name", "category", "isVisible", "order"}, skillData.name,
              skillData.category, skillData.isVisible, skillData.order)

\* fetchSkills: the page's list becomes the answer of GET /skills/admin/all.
FetchSkills ==
    /\ skillsPage' = [skillsPage EXCEPT !.skills = SkillsAdminAll(skills, "admin").body]
    /\ UNCHANGED <<projects, skills, nextId, resp, pending, browser, provider,
                   projectForm, detail, tester>>

\* The inputs of the 'Add New Skill' form write newSkill.
TypeNewSkill ==
    /\ \E name \in {<<>>, <<"c">>, <<"d">>}, category \in {CatFrontend, CatBackend} :
          skillsPage' = [skillsPage EXCEPT !.newSkill.name = name,
                                           !.newSkill.category = category]
    /\ UNCHANGED <<projects, skills, nextId, resp, pending, browser, provider,
                   projectForm, detail, tester>>

\* handleEdit(skill): the edit form opens on a copy of a listed skill.
HandleEdit ==
    /\ \E i \in 1..Len(skillsPage.skills) :
          skillsPage' = [skillsPage EXCEPT !.editingSkill = <<skillsPage.skills[i]>>]
    /\ UNCHANGED <<projects, skills, nextId, resp, pending, browser, provider,
                   projectForm, detail, tester>>

\* The inputs of the 'Edit Skill' form write editingSkill.
TypeEditSkill ==
    /\ skillsPage.editingSkill # <<>>
    /\ \E name \in {<<"e">>, <<"d">>} :
          skillsPage' = [skillsPage EXCEPT !.editingSkill[1].name = name]
    /\ UNCHANGED <<projects, skills, nextId, resp, pending, browser, provider,
                   projectForm, detail, tester>>

\* handleCancelEdit
HandleCancelEdit ==
    /\ skillsPage.editingSkill # <<>>
    /\ skillsPage' = [skillsPage EXCEPT !.editingSkill = <<>>]
    /\ UNCHANGED <<projects, skills, nextId, resp, pending, browser, provider,
                   projectForm, detail, tester>>

\* handleSubmit, called by the submit event of form ("add": the 'Add New
\* Skill' form, "edit": the 'Edit Skill' form) with an admin's token stored.
\* The handler does not learn which form was submitted.
HandleSubmit(form) ==
    LET editing == skillsPage.editingSkill # <<>>
        skillData == IF editing THEN skillsPage.editingSkill[1] ELSE skillsPage.newSkill
        method == IF editing THEN "PUT" ELSE "POST"
        id == IF editing THEN skillsPage.editingSkill[1].id ELSE BadId
        o == IF editing THEN SkillsPut(skills, nextId, "admin", id, FormBody(skillData))
             ELSE SkillsPost(skills, nextId, "admin", FormBody(skillData))
        ok == o.resp.status \in {200, 201}
        replaced == [i \in 1..Len(skillsPage.skills) |->
                        IF skillsPage.skills[i].id = id THEN o.resp.body[1]
                        ELSE skillsPage.skills[i]]
    IN /\ form = "edit" => editing
       /\ skillData.name # <<>> /\ skillData.category # <<>>
       /\ editing \/ nextId <= MaxSkillIds
       /\ resp' = o.resp
       /\ skills' = o.skills
       /\ nextId' = o.nextId
       /\ skillsPage' =
            [skillsPage EXCEPT
                !.request = <<[form |-> form, method |-> method, id |-> id,
                               body |-> FormBody(skillData)]>>,
                !.skills = IF ~ok THEN @
                           ELSE IF editing THEN replaced
                           ELSE Append(@, o.resp.body[1]),
                !.editingSkill = IF ok /\ editing THEN <<>> ELSE @,
                !.newSkill = IF ok /\ ~editing THEN SkillsPageInit.newSkill ELSE @]
       /\ UNCHANGED <<projects, pending, browser, provider, projectForm, detail, tester>>

NextSkillsPage ==
    \/ FetchSkills
    \/ TypeNewSkill
    \/ HandleEdit
    \/ TypeEditSkill
    \/ HandleCancelEdit
    \/ HandleSubmit("add")
    \/ HandleSubmit("edit")

SpecSkillsPage == Init /\ [][NextSkillsPage]_vars

\* C27: submitting the 'Add New Skill' form with a name and a category
\* filled in issues a POST that carries the data of that form and changes
\* no stored skill, also while a skill is open in the edit form.
C27_AddFormAlwaysCreates ==
    [][(HandleSubmit("add") /\ skillsPage.newSkill.name # <<>>) =>
          /\ skillsPage'.request[1].method = "POST"
          /\ skillsPage'.request[1].body = FormBody(skillsPage.newSkill)
          /\ \A s \in Range(skills) : s \in Range(skills')]_vars

----------------------------------------------------------------------------
(* The admin ProjectForm page *)

\* obj.name for a parsed JSON object: <<>> stands for undefined.
Prop(obj, name) == IF name \in DOMAIN obj THEN <<obj[name]>> ELSE <<>>

\* { ...doc, startDate: ..., endDate: ... } for a document without dates
WithDates(doc) ==
    [f \in DOMAIN doc \cup {"startDate", "endDate"} |->
        IF f \in {"startDate", "endDate"} THEN "" ELSE doc[f]]

\* The page after fetchProject read the response r of GET /api/projects/:id.
AfterFetchProject(form, r) ==
    LET left(text) == [form EXCEPT !.route = "/admin/projects", !.alert = text,
                                   !.loading = FALSE]
    IN IF r.status # 200 THEN left("Failed to fetch project data")
       ELSE LET data == r.body[1]
            IN IF Prop(data, "project") = <<>>
               THEN left("Error fetching project data")
               ELSE [form EXCEPT !.project = WithDates(Prop(data, "project")[1]),
                                 !.loading = FALSE]

\* The edit form is opened for the project id: the mount effect runs
\* fetchProject, the server answers and the page reads the answer.
OpenProjectForm(id) ==
    LET matches == ProjectsGetOneMatches(projects, HexId(id))
        opened == [ProjectFormInit EXCEPT !.route = "/admin/projects/edit/:id",
                                          !.id = <<id>>, !.loading = TRUE]
    IN /\ \E found \in IF matches = {} THEN {NoReply} ELSE matches :
             /\ resp' = ProjectsGetOne(projects, "admin", HexId(id), found)
             /\ projectForm' = AfterFetchProject(opened, resp')
       /\ UNCHANGED <<projects, skills, nextId, pending, browser, provider, skillsPage,
                      detail, tester>>

NextProjectForm ==
    \/ \E id \in 1..MaxProjectIds : OpenProjectForm(id)
    \/ PostProject
    \/ PutProject
    \/ DeleteProject

SpecProjectForm == Init /\ [][NextProjectForm]_vars

\* The form state holds every stored field value of the project p.
FormHolds(form, p) ==
    /\ DOMAIN p \subseteq DOMAIN form
    /\ \A f \in DOMAIN p : form[f] = p[f]

\* C28: opening the admin edit form for the id of a stored project,
\* published or not, loads the stored field values of that project into the
\* form state.
C28_EditFormLoadsStoredProject ==
    [][\A id \in 1..MaxProjectIds :
          OpenProjectForm(id) =>
              \A p \in Range(projects) :
                  p.id = id => FormHolds(projectForm'.project, p)]_vars

----------------------------------------------------------------------------
(* The ProjectDetail page *)

MaxImages == 3
MaxRouteIds == 2
\* The index is followed up to this value: past the end of the images
\* nextImage counts on without limit.
MaxImageIndex == 4

\* The page shows the project (not the spinner nor an error page).
Displayed == ~detail.loading /\ detail.error = "" /\ detail.project # <<>>

Images == IF detail.project = <<>> THEN <<>> ELSE detail.project[1].images

\* The page is mounted for /projects/:id: fresh state, and the effect
\* starts fetchProject.
MountDetail ==
    /\ \E id \in 1..MaxRouteIds :
          detail' = [DetailInit EXCEPT !.id = id, !.fetching = TRUE]
    /\ UNCHANGED <<projects, skills, nextId, resp, pending, browser, provider, skillsPage,
                   projectForm, tester>>

\* A link of 'Other Projects' changes the route id while the page stays
\* mounted: the effect runs fetchProject again, the state is kept.
FollowRelated ==
    /\ Displayed
    /\ ~detail.fetching
    /\ \E id \in (1..MaxRouteIds) \ {detail.id} :
          detail' = [detail EXCEPT !.id = id, !.fetching = TRUE]
    /\ UNCHANGED <<projects, skills, nextId, resp, pending, browser, provider, skillsPage,
                   projectForm, tester>>

\* fetchProject after its await: the project of the route id arrives with
\* some number of images, or the request failed.
FetchProjectDone ==
    /\ detail.fetching
    /\ \/ \E n \in 0..MaxImages :
             detail' = [detail EXCEPT
                           !.project = <<[id |-> detail.id, images |-> [i \in 1..n |-> i]]>>,
                           !.loading = FALSE, !.fetching = FALSE]
       \/ detail' = [detail EXCEPT !.error = "Project not found", !.loading = FALSE,
                                   !.fetching = FALSE]
    /\ UNCHANGED <<projects, skills, nextId, resp, pending, browser, provider, skillsPage,
                   projectForm, tester>>

\* nextImage, behind the button shown for more than one image
NextImage ==
    /\ Displayed
    /\ Len(Images) > 1
    /\ detail.currentImageIndex < MaxImageIndex
    /\ detail' = [detail EXCEPT !.currentImageIndex =
                     IF @ = Len(Images) - 1 THEN 0 ELSE @ + 1]
    /\ UNCHANGED <<projects, skills, nextId, resp, pending, browser, provider, skillsPage,
                   projectForm, tester>>

\* prevImage, behind the button shown for more than one image
PrevImage ==
    /\ Displayed
    /\ Len(Images) > 1
    /\ detail' = [detail EXCEPT !.currentImageIndex =
                     IF @ = 0 THEN Len(Images) - 1 ELSE @ - 1]
    /\ UNCHANGED <<projects, skills, nextId, resp, pending, browser, provider, skillsPage,
                   projectForm, tester>>

\* A click on a thumbnail: setCurrentImageIndex(index)
SelectImage ==
    /\ Displayed
    /\ Len(Images) > 1
    /\ \E index \in 0..(Len(Images) - 1) :
          detail' = [detail EXCEPT !.currentImageIndex = index]
    /\ UNCHANGED <<projects, skills, nextId, resp, pending, browser, provider, skillsPage,
                   projectForm, tester>>

NextDetail ==
    \/ MountDetail
    \/ FollowRelated
    \/ FetchProjectDone
    \/ NextImage
    \/ PrevImage
    \/ SelectImage

SpecDetail == Init /\ [][NextDetail]_vars

\* C29: whenever the project detail page holds a project with images,
\* currentImageIndex is an index of its images: at least 0 and below
\* images.length, also after the route id changed to a project with fewer
\* images.
C29_ImageIndexWithinImages ==
    Len(Images) > 0 =>
        (0 <= detail.currentImageIndex /\ detail.currentImageIndex < Len(Images))

----------------------------------------------------------------------------
(* The project checker script (MERNProjectTester) *)

MaxResults == 3

ResultCategories == {"frontend", "backend", "database", "overall"}
ResultStatuses == {"pass", "fail", "warning"}

\* An entry of a test list, and an entry of the errors or warnings list
\* (the string `${category}: ${message}`).
ResultEntry(status) == [kind |-> "result", status |-> status]
TextEntry(category) == [kind |-> "text", text |-> category]

\* test.status: undefined for a string
StatusOf(entry) == IF entry.kind = "result" THEN entry.status ELSE "undefined"

\* The number of results recorded by addResult so far.
Recorded(results) ==
    Len(results.frontend) + Len(results.backend) + Len(results.database)
    + Len(results.overall)

\* addResult(category, test, status, message)
AddResult ==
    /\ Recorded(tester) < MaxResults
    /\ \E category \in ResultCategories, status \in ResultStatuses :
          tester' = [tester EXCEPT
              ![category] = Append(@, ResultEntry(status)),
              !.score = IF status = "pass" THEN @ + 1 ELSE @,
              !.errors = IF status = "fail" THEN Append(@, TextEntry(category)) ELSE @,
              !.warnings = IF status = "warning" THEN Append(@, TextEntry(category)) ELSE @]
    /\ UNCHANGED <<projects, skills, nextId, resp, pending, browser, provider, skillsPage,
                   projectForm, detail>>

\* Object.values(this.results).filter(arr => Array.isArray(arr)).flat():
\* every array-valued property, in the order of the constructor; score is
\* a number and drops out.
FlatArrays(results) ==
    results.frontend \o results.backend \o results.database \o results.overall
    \o results.errors \o results.warnings

CountStatus(entries, status) ==
    Len(SelectSeq(entries, LAMBDA e : StatusOf(e) = status))

\* Math.round(x) for x = num / den >= 0: halves round up.
RoundDiv(num, den) == (2 * num + den) \div (2 * den)

\* The numbers generateReport computes and prints.
Report(results) ==
    LET all == FlatArrays(results)
        totalTests == Len(all)
        passedTests == CountStatus(all, "pass")
    IN [total |-> totalTests, passed |-> passedTests,
        failed |-> CountStatus(all, "fail"),
        warnings |-> CountStatus(all, "warning"),
        score |-> IF totalTests > 0 THEN RoundDiv(passedTests * 100, totalTests) ELSE 0]

\* generateReport
GenerateReport ==
    /\ tester' = [tester EXCEPT !.report = <<Report(tester)>>]
    /\ UNCHANGED <<projects, skills, nextId, resp, pending, browser, provider, skillsPage,
                   projectForm, detail>>

NextTester ==
    \/ AddResult
    \/ GenerateReport

SpecTester == Init /\ [][NextTester]_vars

\* C30: the report generateReport prints after any addResult calls has a
\* total equal to the number of recorded results, passed + failed +
\* warnings equal to that total, and the score round(100 * passed / total),
\* 0 for no results.
C30_ReportCountsRecordedResults ==
    [][GenerateReport =>
          LET r == tester'.report[1]
              n == Recorded(tester)
          IN /\ r.total = n
             /\ r.passed + r.failed + r.warnings = r.total
             /\ r.score = IF n > 0 THEN RoundDiv(r.passed * 100, n) ELSE 0]_vars

====
